---- MODULE Spec2Model ----
(***************************************************************************)
(* A model of the wiki content-retrieval pipeline of mediawiki-mcp: the    *)
(* TTL cache (internal/wiki/cache.go), the section-tree construction and   *)
(* the outline assembly (tools/outline), the section lookup                *)
(* (internal/tools/section.go) and the cached content operations.          *)
(*                                                                         *)
(* Strings that the code only compares or concatenates are TLA+ strings;   *)
(* strings that the code parses (a section's index) are tuples of          *)
(* one-character strings.  Pointers to wiki.Section are positions in a     *)
(* heap of section records (nodes), so that appending to the Subsections   *)
(* of a section on the stack changes the section in the tree, as in Go.    *)
(***************************************************************************)
EXTENDS Integers, Sequences, FiniteSets, TLC

VARIABLES
    toc,        \* SpecTree: resp.Parse.Sections, the flat table of contents
    lead,       \* SpecTree: the lead section's markdown, a sequence of tokens
    tpc,        \* SpecTree: "input", "built" or "looked"
    tOutline,   \* SpecTree: the outline assembled from toc and lead
    tSect,      \* SpecTree: the outcome of the section lookup
    xin,        \* SpecExtract: the function applied and its argument
    xout,       \* SpecExtract: what the function returned
    now,        \* the wall clock, time.Now(), as <<seconds, nanoseconds>>
    items,      \* Cache.items: key -> [value, expiration]
    ticks,      \* the number of clock advances so far
    got,        \* SpecCache: the last Get, with what it returned and when
    lastSet,    \* SpecCache: per key, the last Set not followed by a Delete
    limiters,   \* Client.limiters: the wiki URLs that have a rate limiter
    apiPaths,   \* Client.apiPaths: wiki URL -> discovered API path
    rev,        \* the upstream wiki: how many times its page was edited
    calls,      \* the number of content operations called so far
    ret,        \* the last content operation called, with what it returned
    hist,       \* per request, the last successful call that fetched
    reqs,       \* SpecClient: per caller, its MakeRequest call in progress
    lims,       \* SpecClient: per wiki URL, the state of its rate.Limiter
    wire,       \* SpecClient: per wiki URL, the HTTP requests and the grants
    mu,         \* Cache.mu: the read locks held, and whether the write lock is
    sweep       \* SpecLock: cleanupLoop at its ticker or inside cleanup

extVars == <<xin, xout>>
treeVars == <<toc, lead, tpc, tOutline, tSect, extVars>>
cacheVars == <<now, items, ticks>>
lockVars == <<mu, sweep>>
cacheHist == <<got, lastSet, lockVars>>
opVars == <<limiters, apiPaths, rev, calls, ret, hist>>
reqVars == <<reqs, lims, wire>>
vars == <<toc, lead, tpc, tOutline, tSect, xin, xout, now, items, ticks, got,
          lastSet, limiters, apiPaths, rev, calls, ret, hist, reqs, lims, wire, mu,
          sweep>>

(***************************************************************************)
(* Bounds of the model.                                                    *)
(***************************************************************************)
MaxToc == 5      \* longest table of contents drawn
MaxLevel == 3    \* deepest toclevel drawn
MaxTicks == 1    \* clock advances per behaviour
MaxCalls == 2    \* content operations called per behaviour
MaxRev == 1      \* edits of the upstream page per behaviour
MaxCallers == 2  \* concurrent callers of MakeRequest
MaxAnchors == 3  \* anchors of the HTML drawn for ExtractLinks
MaxLinks == 12   \* distinct page titles of the link list drawn
MaxLines == 4    \* lines of the wikitext drawn for ExtractInfobox

Nil == 0         \* the nil *wiki.Section: no position of the heap

(***************************************************************************)
(* strconv.Atoi as buildSectionsTree uses it: index, _ := Atoi(s).  The    *)
(* error is dropped, so a string that is no decimal integer gives 0.       *)
(***************************************************************************)
DigitChars == <<"0", "1", "2", "3", "4", "5", "6", "7", "8", "9">>

IsDigit(c) == \E d \in 1..10 : DigitChars[d] = c

DigitVal(c) == (CHOOSE d \in 1..10 : DigitChars[d] = c) - 1

RECURSIVE ParseDigits(_, _)
ParseDigits(s, acc) ==
    IF s = <<>> THEN acc
    ELSE ParseDigits(Tail(s), acc * 10 + DigitVal(Head(s)))

Atoi(s) ==
    IF s = <<>> THEN 0
    ELSE LET signed == Head(s) \in {"+", "-"}
             body == IF signed THEN Tail(s) ELSE s
         IN  IF body = <<>> \/ \E i \in 1..Len(body) : ~IsDigit(body[i])
             THEN 0
             ELSE IF Head(s) = "-" THEN 0 - ParseDigits(body, 0)
                  ELSE ParseDigits(body, 0)

(***************************************************************************)
(* wiki.CountWords: the markdown is a sequence of whitespace-separated     *)
(* tokens; stripMarkdownFormatting deletes runs of asterisks, so a token   *)
(* that is only asterisks leaves nothing for strings.Fields to count.      *)
(***************************************************************************)
IsWord(tok) == tok # "**"

stripMarkdownFormatting(text) == SelectSeq(text, IsWord)

CountWords(text) == Len(stripMarkdownFormatting(text))

(***************************************************************************)
(* Time.  A time.Duration counts nanoseconds and a time.Time is an instant *)
(* with nanosecond resolution; both are held as <<seconds, nanoseconds>>   *)
(* with nanoseconds < NsPerSecond, because an hour of nanoseconds exceeds  *)
(* the integers TLC computes with.                                         *)
(***************************************************************************)
NsPerSecond == 1000000000

\* time.Duration(n): the untyped integer n taken as a Duration.
Duration(n) == <<n \div NsPerSecond, n % NsPerSecond>>

\* time.Duration(i) * time.Second
Seconds(i) == <<i, 0>>

\* Time.Add
Add(t, d) ==
    <<t[1] + d[1] + ((t[2] + d[2]) \div NsPerSecond),
      (t[2] + d[2]) % NsPerSecond>>

\* Time.After: t is strictly later than u.
After(t, u) == t[1] > u[1] \/ (t[1] = u[1] /\ t[2] > u[2])

(***************************************************************************)
(* The TTL cache.  NotFound is Get's (nil, false).                         *)
(***************************************************************************)
NotFound == [ok |-> FALSE]

Found(value) == [ok |-> TRUE, value |-> value]

\* Get that returns whatever entry the map holds.
CacheGetIgnoringExpiry(its, t, key) ==
    IF key \notin DOMAIN its THEN NotFound ELSE Found(its[key].value)

CacheGet(its, t, key) ==
    IF key \notin DOMAIN its THEN NotFound
    ELSE IF After(t, its[key].expiration) THEN NotFound
    ELSE Found(its[key].value)

\* A Set that leaves the map as it was.
CacheSetDropped(its, t, key, value, ttl) == its

CacheSet(its, t, key, value, ttl) ==
    [k \in DOMAIN its \cup {key} |->
        IF k = key THEN [value |-> value, expiration |-> Add(t, ttl)]
        ELSE its[k]]

CacheDelete(its, key) == [k \in DOMAIN its \ {key} |-> its[k]]

\* A sweep that also removes the entries that expire at this very instant.
CacheCleanupAtExpiry(its, t) ==
    [k \in {x \in DOMAIN its : After(its[x].expiration, t)} |-> its[k]]

\* A sweep that empties the map.
CacheCleanupAll(its, t) == <<>>

\* A sweep that removes nothing.
CacheCleanupNothing(its, t) == its

CacheCleanup(its, t) ==
    [k \in {x \in DOMAIN its : ~After(t, its[x].expiration)} |-> its[k]]

(***************************************************************************)
(* The upstream table of contents: wiki.MWSection values.  Index is the    *)
(* index string as sent by the wiki, TocLevel its nesting depth, Line its  *)
(* heading.                                                                *)
(***************************************************************************)
MWSection(index, toclevel, line) ==
    [Index |-> index, TocLevel |-> toclevel, Line |-> line]

(***************************************************************************)
(* buildSectionsTree.  The build state b holds the heap of sections        *)
(* (nodes), the top-level list (sections) and the stack of open ancestors, *)
(* the last two as heap positions.                                         *)
(***************************************************************************)
LeadSection(leadContent) ==
    [Index |-> 0, Title |-> "Lead", Level |-> 1,
     WordCount |-> CountWords(leadContent), Subsections |-> <<>>]

NewSection(mwSec) ==
    [Index |-> Atoi(mwSec.Index), Title |-> mwSec.Line,
     Level |-> mwSec.TocLevel + 1, WordCount |-> 0, Subsections |-> <<>>]

\* PopStack popping only the strictly deeper sections.
RECURSIVE PopStackKeepingEqual(_, _, _)
PopStackKeepingEqual(nodes, stack, level) ==
    IF Len(stack) > 0 /\ nodes[stack[Len(stack)]].Level > level
    THEN PopStackKeepingEqual(nodes, SubSeq(stack, 1, Len(stack) - 1), level)
    ELSE stack

RECURSIVE PopStack(_, _, _)
PopStack(nodes, stack, level) ==
    IF Len(stack) > 0 /\ nodes[stack[Len(stack)]].Level >= level
    THEN PopStack(nodes, SubSeq(stack, 1, Len(stack) - 1), level)
    ELSE stack

AddSection(b, mwSec) ==
    LET section == NewSection(mwSec)
        id == Len(b.nodes) + 1
        nodes1 == Append(b.nodes, section)
        stack == PopStack(b.nodes, b.stack, section.Level)
    IN  IF Len(stack) = 0
        THEN [nodes |-> nodes1,
              sections |-> Append(b.sections, id),
              stack |-> Append(stack, id)]
        ELSE LET parent == stack[Len(stack)]
             IN  [nodes |-> [nodes1 EXCEPT ![parent].Subsections = Append(@, id)],
                  sections |-> b.sections,
                  stack |-> Append(stack, id)]

RECURSIVE BuildLoop(_, _)
BuildLoop(b, mwSections) ==
    IF mwSections = <<>> THEN b
    ELSE BuildLoop(AddSection(b, Head(mwSections)), Tail(mwSections))

buildSectionsTree(mwSections, leadContent) ==
    IF Len(mwSections) = 0
    THEN [nodes |-> <<>>, sections |-> <<>>]
    ELSE LET b == BuildLoop([nodes |-> <<LeadSection(leadContent)>>,
                             sections |-> <<1>>,
                             stack |-> <<>>], mwSections)
         IN  [nodes |-> b.nodes, sections |-> b.sections]

(***************************************************************************)
(* countSubsectionWords and the total of GetPageOutline.                   *)
(***************************************************************************)
RECURSIVE SubsectionWords(_, _)
SubsectionWords(nodes, subs) ==
    IF subs = <<>> THEN 0
    ELSE nodes[Head(subs)].WordCount
         + SubsectionWords(nodes, nodes[Head(subs)].Subsections)
         + SubsectionWords(nodes, Tail(subs))

countSubsectionWords(nodes, section) ==
    SubsectionWords(nodes, nodes[section].Subsections)

RECURSIVE SumSections(_, _)
SumSections(nodes, sections) ==
    IF sections = <<>> THEN 0
    ELSE nodes[Head(sections)].WordCount
         + countSubsectionWords(nodes, Head(sections))
         + SumSections(nodes, Tail(sections))

TotalWords(leadMarkdown, tree) ==
    CountWords(leadMarkdown) + SumSections(tree.nodes, tree.sections)

(***************************************************************************)
(* The part of GetPageOutline that follows its fetches: the outline        *)
(* assembled from the skeleton response and the lead markdown.             *)
(***************************************************************************)
AssembleOutline(title, mwSections, leadMarkdown, infobox) ==
    LET sections == buildSectionsTree(mwSections, leadMarkdown)
    IN  [type |-> "PageOutline",
         Title |-> title,
         Exists |-> TRUE,
         Infobox |-> infobox,
         Sections |-> sections,
         TotalWordCount |-> TotalWords(leadMarkdown, sections)]

(***************************************************************************)
(* flattenSections: the depth-first sequence of the tree, as heap          *)
(* positions.                                                              *)
(***************************************************************************)
RECURSIVE flatten(_, _)
flatten(nodes, secs) ==
    IF secs = <<>> THEN <<>>
    ELSE <<Head(secs)>>
         \o (IF Len(nodes[Head(secs)].Subsections) > 0
             THEN flatten(nodes, nodes[Head(secs)].Subsections)
             ELSE <<>>)
         \o flatten(nodes, Tail(secs))

\* flattenSections that does not descend into the subsections.
flattenTopLevel(tree) == tree.sections

flattenSections(tree) == flatten(tree.nodes, tree.sections)

(***************************************************************************)
(* The lookup of GetPageSection in the flattened outline: the first        *)
(* element with the requested index, the nearest element before it with a  *)
(* lower level, and its neighbours.  Nil where there is none.              *)
(***************************************************************************)
\* FindParent accepting an element of the same level.
RECURSIVE FindParentSameLevel(_, _, _, _)
FindParentSameLevel(nodes, flat, j, level) ==
    IF j < 1 THEN Nil
    ELSE IF nodes[flat[j]].Level <= level THEN flat[j]
    ELSE FindParentSameLevel(nodes, flat, j - 1, level)

RECURSIVE FindParent(_, _, _, _)
FindParent(nodes, flat, j, level) ==
    IF j < 1 THEN Nil
    ELSE IF nodes[flat[j]].Level < level THEN flat[j]
    ELSE FindParent(nodes, flat, j - 1, level)

RECURSIVE FindTarget(_, _, _, _)
FindTarget(nodes, flat, i, sectionIndex) ==
    IF i > Len(flat)
    THEN [target |-> Nil, parent |-> Nil, prev |-> Nil, next |-> Nil]
    ELSE IF nodes[flat[i]].Index = sectionIndex
    THEN [target |-> flat[i],
          parent |-> FindParent(nodes, flat, i - 1, nodes[flat[i]].Level),
          prev |-> IF i > 1 THEN flat[i - 1] ELSE Nil,
          next |-> IF i < Len(flat) THEN flat[i + 1] ELSE Nil]
    ELSE FindTarget(nodes, flat, i + 1, sectionIndex)

FindSection(outline, sectionIndex) ==
    FindTarget(outline.Sections.nodes, flattenSections(outline.Sections),
               1, sectionIndex)

SectionNotFoundError(sectionIndex, availableSections) ==
    [kind |-> "SectionNotFoundError",
     SectionIndex |-> sectionIndex,
     AvailableSections |-> availableSections]

\* The {Index, Title} struct of ParentSection, Adjacent.Previous and
\* Adjacent.Next; None when the pointer is nil.
None == [none |-> TRUE]

SectionRef(nodes, ptr) ==
    IF ptr = Nil THEN None
    ELSE [Index |-> nodes[ptr].Index, Title |-> nodes[ptr].Title]

\* The wiki.PageSection GetPageSection builds once the content is fetched.
BuildPageSection(title, outline, found, markdown) ==
    LET nodes == outline.Sections.nodes
    IN  [type |-> "PageSection",
         Title |-> title,
         Section |-> [Index |-> nodes[found.target].Index,
                      Title |-> nodes[found.target].Title,
                      Level |-> nodes[found.target].Level,
                      Content |-> markdown,
                      WordCount |-> CountWords(markdown)],
         ParentSection |-> SectionRef(nodes, found.parent),
         Previous |-> SectionRef(nodes, found.prev),
         Next |-> SectionRef(nodes, found.next)]

(***************************************************************************)
(* SpecTree: the outline assembly and the section lookup applied to every  *)
(* table of contents of at most MaxToc entries with toclevels 1..MaxLevel. *)
(* The index strings are the decimal positions 1, 2, ... as MediaWiki      *)
(* numbers them, with at most one entry carrying an index string that is   *)
(* no decimal number (MediaWiki sends "T-1" for a heading that comes from  *)
(* a template, and "" for a heading that cannot be edited).                *)
(***************************************************************************)
Canon(i) ==
    IF i < 10 THEN <<DigitChars[i + 1]>>
    ELSE <<DigitChars[(i \div 10) + 1], DigitChars[(i % 10) + 1]>>

AltIndex == {<<"T", "-", "1">>, <<>>}

LineOf(i) == "H" \o ToString(i)

TocOf(levels, pos, alt) ==
    [i \in 1..Len(levels) |->
        MWSection(IF i = pos THEN alt ELSE Canon(i), levels[i], LineOf(i))]

\* Where a table of contents of n entries carries an index string that is
\* not a decimal number: nowhere, at the first entry or at the last.
AltChoices(n) == {<<0, <<>>>>} \cup (({1, n} \cap (1..n)) \X AltIndex)

LeadTexts == {<<>>, <<"w">>, <<"**", "w", "w", "**">>}

SectionText == <<"w", "w", "**">>

NoOutline == [none |-> TRUE]

\* The state of a part of the model that a specification does not use.
TreeIdle ==
    /\ toc = <<>>
    /\ lead = <<>>
    /\ tpc = "off"
    /\ tOutline = NoOutline
    /\ tSect = None

ExtractOff ==
    /\ xin = [none |-> TRUE]
    /\ xout = [none |-> TRUE]

TreeOff == TreeIdle /\ ExtractOff

\* NewCache: an empty map; the clock starts at the instant 0.
CacheStart ==
    /\ now = <<0, 0>>
    /\ items = <<>>
    /\ ticks = 0

\* The zero sync.RWMutex: no read lock held, the write lock free.
Unlocked == [readers |-> 0, writer |-> FALSE]

CacheHistOff ==
    /\ got = None
    /\ lastSet = <<>>
    /\ mu = Unlocked
    /\ sweep = "ticker"

\* The goroutines that call MakeRequest, and a caller that is not in a call.
Callers == 1..MaxCallers

IdleRequest == [pc |-> "idle"]

\* NewClient: no limiter, no API path; nothing called yet.
ClientStart ==
    /\ reqs = [p \in Callers |-> IdleRequest]
    /\ lims = <<>>
    /\ wire = <<>>
    /\ limiters = {}
    /\ apiPaths = <<>>
    /\ rev = 0
    /\ calls = 0
    /\ ret = None
    /\ hist = <<>>

InitTree ==
    /\ \E n \in 0..MaxToc :
          \E levels \in [1..n -> 1..MaxLevel], alt \in AltChoices(n) :
              toc = TocOf(levels, alt[1], alt[2])
    /\ lead \in LeadTexts
    /\ tpc = "input"
    /\ tOutline = NoOutline
    /\ tSect = None
    /\ ExtractOff
    /\ CacheStart
    /\ CacheHistOff
    /\ ClientStart

\* GetPageOutline from the skeleton and the lead to the outline it returns.
TreeOutline ==
    /\ tpc = "input"
    /\ tOutline' = AssembleOutline("T", toc, lead, None)
    /\ tpc' = "built"
    /\ UNCHANGED <<toc, lead, tSect, extVars, cacheVars, cacheHist, opVars,
                   reqVars>>

\* GetPageSection from the outline to the lookup's outcome: the error, or
\* the page section built around the fetched content.
TreeSection(sectionIndex) ==
    /\ tpc = "built"
    /\ LET found == FindSection(tOutline, sectionIndex)
           flat == flattenSections(tOutline.Sections)
       IN  tSect' = IF found.target = Nil
                    THEN [err |-> SectionNotFoundError(sectionIndex, Len(flat)),
                          arg |-> sectionIndex]
                    ELSE [err |-> None,
                          arg |-> sectionIndex,
                          value |-> BuildPageSection("T", tOutline, found,
                                                     SectionText)]
    /\ tpc' = "looked"
    /\ UNCHANGED <<toc, lead, tOutline, extVars, cacheVars, cacheHist, opVars,
                   reqVars>>

NextTree ==
    \/ TreeOutline
    \/ \E sectionIndex \in 0..(MaxToc + 1) : TreeSection(sectionIndex)

SpecTree == InitTree /\ [][NextTree]_vars

(***************************************************************************)
(* Properties of the section tree (SpecTree).                              *)
(***************************************************************************)
Max(S) == CHOOSE x \in S : \A y \in S : y <= x

Range(seq) == {seq[i] : i \in 1..Len(seq)}

Increasing(seq) == \A i, j \in 1..Len(seq) : i < j => seq[i] < seq[j]

\* The outline's heap of sections, its top-level list and its flattening.
tNodes == tOutline.Sections.nodes

tTop == tOutline.Sections.sections

tFlat == flattenSections(tOutline.Sections)

\* The tables of contents of the examples: with the lead, the sections
\* [0,1,2,3] at levels [1,2,3,2]; and the TOC levels [1,2,3,2,1].
TocExample4 == TocOf(<<1, 2, 1>>, 0, <<>>)

TocExample5 == TocOf(<<1, 2, 3, 2, 1>>, 0, <<>>)

RefAt(p) == [Index |-> tNodes[tFlat[p]].Index, Title |-> tNodes[tFlat[p]].Title]

C6_LeadFirst ==
    tpc # "input" =>
        /\ Len(tTop) >= 1
        /\ tNodes[tTop[1]].Index = 0
        /\ tNodes[tTop[1]].Level = 1
        /\ tNodes[tTop[1]].Title = "Lead"

\* C6 for the pages whose table of contents is not empty.
C6_LeadFirstNonEmpty == toc # <<>> => C6_LeadFirst

\* The heap position of the i-th entry of the table of contents, and the
\* sections that hold the section at c among their subsections.
NodeOf(i) == i + 1

ParentsOf(c) == {p \in 1..Len(tNodes) : c \in Range(tNodes[p].Subsections)}

\* C7: for every flat table-of-contents level sequence, buildSectionsTree
\* attaches each section as the last child of the nearest preceding section
\* with strictly lower level, or appends it to the top-level list when no
\* such section exists; in the resulting tree every child has a level
\* strictly greater than its parent's.
C7_StackAttach ==
    tpc # "input" =>
        /\ \A i \in 1..Len(toc) :
              LET lower == {j \in 1..(i - 1) :
                               toc[j].TocLevel < toc[i].TocLevel}
              IN  /\ Len(tNodes) = Len(toc) + 1
                  /\ tNodes[NodeOf(i)].Level = toc[i].TocLevel + 1
                  /\ tNodes[NodeOf(i)].Title = toc[i].Line
                  /\ IF lower = {}
                     THEN /\ NodeOf(i) \in Range(tTop)
                          /\ ParentsOf(NodeOf(i)) = {}
                     ELSE /\ NodeOf(i) \notin Range(tTop)
                          /\ ParentsOf(NodeOf(i)) = {NodeOf(Max(lower))}
        /\ Increasing(tTop)
        /\ \A p \in 1..Len(tNodes) :
              /\ Increasing(tNodes[p].Subsections)
              /\ \A k \in 1..Len(tNodes[p].Subsections) :
                    tNodes[tNodes[p].Subsections[k]].Level > tNodes[p].Level

\* C7's case: a tree has been built in which a section is attached to a
\* section other than its predecessor, the stack having been popped.
C7_Witness ==
    /\ tpc = "built"
    /\ Len(toc) >= 4
    /\ \E i \in 3..Len(toc) :
          /\ ParentsOf(NodeOf(i)) # {}
          /\ NodeOf(i - 1) \notin ParentsOf(NodeOf(i))
    /\ Len(tTop) >= 3

\* C8: for every flat table of contents, depth-first flattening of the tree
\* built by buildSectionsTree yields the lead section followed by the
\* table-of-contents entries in their original order; for levels
\* [1,2,3,2,1] the tree (lead excluded) has exactly two top-level entries,
\* the first with two children of which one has a child, the second with
\* none.
C8_FlattenOrder ==
    tpc # "input" =>
        /\ Len(tFlat) = Len(toc) + 1
        /\ tNodes[tFlat[1]].Title = "Lead"
        /\ \A i \in 1..Len(toc) :
              /\ tNodes[tFlat[i + 1]].Title = toc[i].Line
              /\ tNodes[tFlat[i + 1]].Level = toc[i].TocLevel + 1
        /\ toc = TocExample5 =>
              /\ Len(tTop) = 3
              /\ Len(tNodes[tTop[2]].Subsections) = 2
              /\ Len(tNodes[tNodes[tTop[2]].Subsections[1]].Subsections) = 1
              /\ Len(tNodes[tNodes[tTop[2]].Subsections[2]].Subsections) = 0
              /\ Len(tNodes[tTop[3]].Subsections) = 0

\* C8 for the tables of contents that are not empty.
C8_FlattenOrderNonEmpty == toc # <<>> => C8_FlattenOrder

\* C9: in every PageOutline no two sections of the flattened tree (lead
\* included) have the same index, for every table of contents whose entries
\* carry pairwise distinct index strings.
C9_UniqueIndex ==
    (/\ tpc # "input"
     /\ \A i, j \in 1..Len(toc) : i # j => toc[i].Index # toc[j].Index) =>
        \A p, q \in 1..Len(tFlat) :
            p # q => tNodes[tFlat[p]].Index # tNodes[tFlat[q]].Index

\* C9 for the tables of contents whose index strings are all decimal.
C9_UniqueIndexDecimal ==
    (\A i \in 1..Len(toc) : toc[i].Index = Canon(i)) => C9_UniqueIndex

RECURSIVE WordsOf(_)
WordsOf(S) ==
    IF S = {} THEN 0
    ELSE LET x == CHOOSE y \in S : TRUE
         IN  tNodes[x].WordCount + WordsOf(S \ {x})

\* C10: PageOutline.TotalWordCount equals the word count of the lead plus
\* the word counts of all sections and all their descendants, each section
\* (the lead included) being counted exactly once.
C10_TotalWordCount ==
    tpc # "input" =>
        tOutline.TotalWordCount =
            CountWords(lead) + WordsOf({x \in 1..Len(tNodes) : x # 1})

(***************************************************************************)
(* SpecCache: the cache alone, driven by Set, Get, Delete, the background  *)
(* sweep and the clock.                                                    *)
(***************************************************************************)
CacheKeys == {"k1", "k2"}

CacheValues == {"v1", "v2"}

\* The TTLs drawn for Set and the steps the clock advances by.
CacheTTLs == {Duration(1), Seconds(1)}

CacheSteps == {Duration(1), Seconds(1)}

InitCache ==
    /\ TreeOff
    /\ CacheStart
    /\ CacheHistOff
    /\ ClientStart

Set(key, value, ttl) ==
    /\ items' = CacheSet(items, now, key, value, ttl)
    /\ lastSet' = [k \in DOMAIN lastSet \cup {key} |->
                      IF k = key THEN [value |-> value, at |-> now, ttl |-> ttl]
                      ELSE lastSet[k]]
    /\ UNCHANGED <<now, ticks, got, lockVars, treeVars, reqVars, opVars>>

Get(key) ==
    /\ got' = [key |-> key, at |-> now, result |-> CacheGet(items, now, key),
               set |-> IF key \in DOMAIN lastSet THEN lastSet[key] ELSE None]
    /\ UNCHANGED <<cacheVars, lastSet, lockVars, treeVars, reqVars, opVars>>

Delete(key) ==
    /\ items' = CacheDelete(items, key)
    /\ lastSet' = [k \in DOMAIN lastSet \ {key} |-> lastSet[k]]
    /\ UNCHANGED <<now, ticks, got, lockVars, treeVars, reqVars, opVars>>

\* One run of the sweep: cleanupLoop's ticker fired and cleanup ran.
cleanup ==
    /\ items' = CacheCleanup(items, now)
    /\ UNCHANGED <<now, ticks, cacheHist, treeVars, reqVars, opVars>>

\* The clock advances by d.
Tick(d) ==
    /\ ticks < MaxTicks
    /\ ticks' = ticks + 1
    /\ now' = Add(now, d)
    /\ UNCHANGED <<items, cacheHist, treeVars, reqVars, opVars>>

NextCache ==
    \/ \E key \in CacheKeys, value \in CacheValues, ttl \in CacheTTLs :
          Set(key, value, ttl)
    \/ \E key \in CacheKeys : Get(key)
    \/ \E key \in CacheKeys : Delete(key)
    \/ cleanup
    \/ \E d \in CacheSteps : Tick(d)

SpecCache == InitCache /\ [][NextCache]_vars

\* C2: after Set(k, v, T) with T > 0 at time t0 and no later Set or Delete
\* of k, Get(k) returns (v, found) at every time up to t0+T and (nothing,
\* not found) at every time after t0+T, whether or not the sweep has run.
C2_GetWithinTTL ==
    (got # None /\ got.set # None) =>
        LET ds == got.at[1] - got.set.at[1] - got.set.ttl[1]
            dn == got.at[2] - got.set.at[2] - got.set.ttl[2]
            \* got.at <= set.at + set.ttl, in seconds and nanoseconds
            within == \/ ds < 0 - 1
                      \/ ds = 0 - 1 /\ dn <= NsPerSecond
                      \/ ds = 0 /\ dn <= 0
                      \/ ds = 1 /\ dn <= 0 - NsPerSecond
        IN  got.result = IF within
                         THEN [ok |-> TRUE, value |-> got.set.value]
                         ELSE [ok |-> FALSE]

\* C2's cases: a Get at the very instant the entry expires finds it, with
\* the entry still in the map; a later Get does not find it although the
\* sweep has not removed it; and a Get after the sweep does not find it.
C2_Witness ==
    /\ got # None
    /\ got.set # None
    /\ got.key \in DOMAIN items
    /\ got.at = Add(got.set.at, got.set.ttl)
    /\ got.result.ok

C2_WitnessExpired ==
    /\ got # None
    /\ got.set # None
    /\ got.key \in DOMAIN items
    /\ got.at = now
    /\ items[got.key].value = got.set.value
    /\ ~got.result.ok

C2_WitnessSwept ==
    /\ got # None
    /\ got.set # None
    /\ got.key \notin DOMAIN items
    /\ got.key \in DOMAIN lastSet
    /\ lastSet[got.key] = got.set
    /\ ~got.result.ok

(***************************************************************************)
(* The client and the content operations.                                  *)
(*                                                                         *)
(* Configuration: config.Load's defaults, as NewServer hands them to       *)
(* wiki.NewClient.                                                         *)
(***************************************************************************)
DefaultCacheTTL == 300

DefaultCacheTTLInfo == 3600

\* Client.GetCacheTTL and Client.GetCacheTTLInfo
GetCacheTTL == Seconds(DefaultCacheTTL)

GetCacheTTLInfo == Seconds(DefaultCacheTTLInfo)

\* The ttl argument SearchWiki passes to Set: the constant 1*60 where a
\* time.Duration is expected.
SearchTTL == Duration(1 * 60)

\* wiki.CacheKey and its helpers; strconv.Itoa.
RECURSIVE JoinParts(_, _)
JoinParts(key, parts) ==
    IF parts = <<>> THEN key
    ELSE JoinParts(key \o ":" \o Head(parts), Tail(parts))

CacheKey(parts) ==
    IF parts = <<>> THEN "" ELSE JoinParts(Head(parts), Tail(parts))

Itoa(n) == ToString(n)

PageCacheKey(wikiURL, title) == CacheKey(<<"page", wikiURL, title>>)

SectionCacheKey(wikiURL, title, sectionIndex) ==
    CacheKey(<<"section", wikiURL, title, sectionIndex>>)

SearchCacheKey(wikiURL, query) == CacheKey(<<"search", wikiURL, query>>)

InfoCacheKey(wikiURL) == CacheKey(<<"info", wikiURL>>)

CategoryCacheKey(wikiURL, category) ==
    CacheKey(<<"category", wikiURL, category>>)

BacklinksCacheKey(wikiURL, title) == CacheKey(<<"backlinks", wikiURL, title>>)

(***************************************************************************)
(* wiki.HTMLToMarkdown on a sequence of HTML tokens: bold tags become the  *)
(* strong delimiter, the section-edit span is removed, words stay.         *)
(***************************************************************************)
RECURSIVE HTMLToMarkdown(_)
HTMLToMarkdown(html) ==
    IF html = <<>> THEN <<>>
    ELSE (CASE Head(html) \in {"<b>", "</b>"} -> <<"**">>
            [] Head(html) = "<editsection>" -> <<>>
            [] OTHER -> <<Head(html)>>)
         \o HTMLToMarkdown(Tail(html))

(***************************************************************************)
(* wiki.ExtractInfobox on wikitext held as a sequence of lines, each the   *)
(* opening of a template, the closing "}}", a "|key = value" pair, or     *)
(* other text.  The regular expression matches from the first line that    *)
(* opens an Infobox template to the first closing line at least two lines  *)
(* below it; the result is nil when nothing matches or no pair is between. *)
(***************************************************************************)
\* ExtractInfobox taking any template for an infobox.
ExtractInfoboxAnyTemplate(wikitext) ==
    IF \A i \in 1..Len(wikitext) :
          wikitext[i].line \notin {"{{Infobox", "{{Taxobox"}
    THEN None
    ELSE [pairs |-> {<<wikitext[i].key, wikitext[i].value>> :
                       i \in {j \in 1..Len(wikitext) :
                                  wikitext[j].line = "pair"}}]

ExtractInfobox(wikitext) ==
    IF \A i \in 1..Len(wikitext) : wikitext[i].line # "{{Infobox"
    THEN None
    ELSE LET open == CHOOSE i \in 1..Len(wikitext) :
                        /\ wikitext[i].line = "{{Infobox"
                        /\ \A j \in 1..(i - 1) : wikitext[j].line # "{{Infobox"
             closes == {j \in (open + 2)..Len(wikitext) :
                           wikitext[j].line = "}}"}
         IN  IF closes = {} THEN None
             ELSE LET close == CHOOSE j \in closes : \A k \in closes : j <= k
                      pairs == {<<wikitext[i].key, wikitext[i].value>> :
                                   i \in {j \in (open + 1)..(close - 1) :
                                              wikitext[j].line = "pair"}}
                  IN  IF pairs = {} THEN None ELSE [pairs |-> pairs]

(***************************************************************************)
(* The upstream wiki.  Its page has been edited rev times: every edit adds *)
(* a heading at the end of the table of contents and a word to each text.  *)
(* A response is a wiki.mwResponse: the Query, Parse and Compare           *)
(* envelopes, None for a nil one.                                          *)
(***************************************************************************)
Words(n) == [i \in 1..n |-> "w"]

PageToc(r) ==
    IF r = 0 THEN TocOf(<<1, 2, 1>>, 0, <<>>)
    ELSE TocOf([i \in 1..(3 + r) |-> IF i = 2 THEN 2 ELSE 1], 0, <<>>)

\* mwResponse: the envelopes of a decoded response, nil when absent.
EmptyResponse ==
    [Error |-> None, Query |-> None, Parse |-> None, Compare |-> None]

QueryResponse(q) == [EmptyResponse EXCEPT !.Query = q]

ParseResponse(p) == [EmptyResponse EXCEPT !.Parse = p]

CompareResponse(c) == [EmptyResponse EXCEPT !.Compare = c]

Upstream(kind, title, r) ==
    CASE kind = "siteinfo" ->
           QueryResponse([General |-> [Sitename |-> "W", MainPage |-> "Main"],
                          Statistics |-> [Articles |-> 1 + r]])
      [] kind = "search" ->
           QueryResponse([Search |-> [i \in 1..(1 + r) |->
                                        [Title |-> title,
                                         Snippet |-> <<"<b>", "w", "</b>">>,
                                         WordCount |-> 1 + r]]])
      [] kind = "skeleton" ->
           ParseResponse([Title |-> title, Sections |-> PageToc(r)])
      [] kind = "lead" ->
           ParseResponse([Title |-> title,
                          Text |-> <<"<b>", "w", "</b>">> \o Words(r)])
      [] kind = "wikitext" ->
           QueryResponse([Pages |-> <<[Revisions |-> <<
               [Content |-> <<[line |-> "{{Infobox"],
                              [line |-> "pair", key |-> "edits", value |-> r],
                              [line |-> "}}"]>>]>>]>>])
      [] kind = "section" ->
           ParseResponse([Title |-> title,
                          Text |-> <<"w", "<editsection>">> \o Words(r),
                          Links |-> <<"L">>])
      [] kind = "full" ->
           ParseResponse([Title |-> title,
                          Text |-> <<"w", "w">> \o Words(r),
                          Links |-> <<"L">>])
      [] kind = "categorymembers" ->
           QueryResponse([Categorymembers |-> [i \in 1..(1 + r) |->
                                                 [Title |-> "M", Type |-> "page"]]])
      [] kind = "categories" ->
           QueryResponse([Pages |-> <<[Categories |-> <<"P">>]>>])
      [] kind = "backlinks" ->
           QueryResponse([Backlinks |-> [i \in 1..(1 + r) |-> [Title |-> "B"]]])
      [] kind = "compare" ->
           CompareResponse([FromRevID |-> r, ToRevID |-> r + 1,
                            Body |-> <<"<b>", "w", "</b>">>])

(***************************************************************************)
(* A call context c holds the client state a handler reads and writes      *)
(* (items, limiters, apiPaths) and a log of what the call did: sent, the   *)
(* number of HTTP requests sent (probes included); fetched, the API        *)
(* requests sent, by kind; stored, the cache keys it Set.                  *)
(***************************************************************************)
Error(msg) == [kind |-> "error", msg |-> msg]

\* fmt.Errorf("<msg>: %w", cause)
Wrap(msg, cause) == [kind |-> "wrapped", msg |-> msg, cause |-> cause]

\* A run-time panic: a nil dereference or a failed type assertion.
Panic == [kind |-> "panic"]

Return(c, value) == [c |-> c, err |-> None, value |-> value]

Fail(c, err) == [c |-> c, err |-> err, value |-> None]

APIPaths == <<"/api.php", "/w/api.php">>

\* The error codes the upstream wiki is taken to answer with, and the
\* error envelope of a response: mwError.
APIErrorCodes == {"missingtitle", "nosuchsection", "maxlag", "badvalue"}

MWError(code) == [Code |-> code, Info |-> "info:" \o code]

\* wiki.APIError
APIError(code, message) ==
    [kind |-> "APIError", Code |-> code, Message |-> message]

\* What the wiki's answer decodes to.  api is how the API request ends:
\* "ok" (the payload), "empty" (no envelope at all) or an error code (the
\* error envelope, sent along with the payload).
Decoded(api, payload) ==
    IF api = "ok" THEN payload
    ELSE IF api = "empty" THEN EmptyResponse
    ELSE [payload EXCEPT !.Error = MWError(api)]

\* The check for API errors that takes no notice of the error envelope
\* when the response carries a payload.
CheckAPIErrorUnlessPayload(mwResp) ==
    IF mwResp.Error # None /\ mwResp = [EmptyResponse EXCEPT !.Error = mwResp.Error]
    THEN [err |-> APIError(mwResp.Error.Code, mwResp.Error.Info), resp |-> None]
    ELSE [err |-> None, resp |-> mwResp]

\* MakeRequest from the decoded response on: the check for API errors.
CheckAPIError(mwResp) ==
    IF mwResp.Error # None
    THEN [err |-> APIError(mwResp.Error.Code, mwResp.Error.Info), resp |-> None]
    ELSE [err |-> None, resp |-> mwResp]

\* MakeRequest from the HTTP exchange on.  api = "err": the exchange fails
\* (transport failure, non-200 status, undecodable body).
Exchange(api, payload) ==
    IF api = "err" THEN [err |-> Error("request failed"), resp |-> None]
    ELSE CheckAPIError(Decoded(api, payload))

\* Client.MakeRequest of one caller at a time, with getLimiter and
\* getAPIPath.  disc is what the endpoint discovery finds should this
\* request run it: the candidate that answers 200, or "none"; api is how
\* the API request itself ends (see Exchange).
MakeRequest(c, wikiURL, disc, api, kind, payload) ==
    LET known == wikiURL \in DOMAIN c.apiPaths
        probes == IF known THEN 0
                  ELSE IF disc = APIPaths[1] THEN 1 ELSE 2
        c1 == [c EXCEPT !.limiters = @ \cup {wikiURL},
                        !.sent = @ + probes]
        c2 == IF known \/ disc = "none" THEN c1
              ELSE [c1 EXCEPT !.apiPaths =
                       [w \in DOMAIN @ \cup {wikiURL} |->
                           IF w = wikiURL THEN disc ELSE @[w]]]
        c3 == [c2 EXCEPT !.sent = @ + 1, !.fetched = Append(@, kind)]
    IN  IF ~known /\ disc = "none"
        THEN [c |-> c2, err |-> Error("could not find valid API endpoint"),
              resp |-> None]
        ELSE [c |-> c3, err |-> Exchange(api, payload).err,
              resp |-> Exchange(api, payload).resp]

\* F applied to the value of x: the statement "v := x", after which v is not
\* computed again.
With(x, F(_)) == CHOOSE y \in {F(v) : v \in {x}} : TRUE

\* Cache.Get and Cache.Set on the cache of the call context.
Cached(c, t, key) == CacheGet(c.items, t, key)

Store(c, t, key, value, ttl) ==
    [c EXCEPT !.items = CacheSet(@, t, key, value, ttl),
              !.stored = @ \cup {key}]

\* An error return that comes after the Set of the operation's key.
ReturnErrorAfterSet(c, t, key, err) ==
    Fail(Store(c, t, key, [type |-> "nil"], GetCacheTTL), err)

\* "if err != nil { return nil, err }" of an operation whose cache key is
\* key: the operation's Set, its last statement, is not reached.
ReturnError(c, t, key, err) == Fail(c, err)

\* The cache hit of every operation: cached.(*T), which panics when the
\* value found under the key is of another type.
ReturnCached(c, cached, type) ==
    IF cached.value.type = type THEN Return(c, cached.value)
    ELSE Fail(c, Panic)

GetWikiInfo(c, t, wikiURL, disc, net, r) ==
    LET cacheKey == InfoCacheKey(wikiURL)
        cached == Cached(c, t, cacheKey)
        m == MakeRequest(c, wikiURL, disc, net[1], "siteinfo",
                         Upstream("siteinfo", "", r))
    IN  IF cached.ok THEN ReturnCached(c, cached, "WikiInfo")
        ELSE IF m.err # None THEN Fail(m.c, Wrap("get wiki info", m.err))
        ELSE IF m.resp.Query = None
        THEN Fail(m.c, Error("empty query response"))
        ELSE LET info == [type |-> "WikiInfo",
                          BaseURL |-> wikiURL,
                          Name |-> m.resp.Query.General.Sitename,
                          MainPage |-> m.resp.Query.General.MainPage,
                          ArticleCount |-> m.resp.Query.Statistics.Articles]
             IN  Return(Store(m.c, t, cacheKey, info, GetCacheTTLInfo), info)

SearchWiki(c, t, wikiURL, query, limit, disc, net, r) ==
    LET cacheKey == SearchCacheKey(wikiURL, query \o ":" \o Itoa(limit))
        cached == Cached(c, t, cacheKey)
        m == MakeRequest(c, wikiURL, disc, net[1], "search",
                         Upstream("search", query, r))
    IN  IF cached.ok THEN ReturnCached(c, cached, "SearchResponse")
        ELSE IF m.err # None
        THEN ReturnError(m.c, t, cacheKey, Wrap("search wiki", m.err))
        ELSE IF m.resp.Query = None
        THEN Fail(m.c, Error("empty query response"))
        ELSE LET hits == m.resp.Query.Search
                 searchResp ==
                     [type |-> "SearchResponse",
                      Results |-> [i \in 1..Len(hits) |->
                                     [Title |-> hits[i].Title,
                                      Snippet |-> HTMLToMarkdown(hits[i].Snippet),
                                      WordCount |-> hits[i].WordCount]],
                      TotalHits |-> Len(hits)]
             IN  Return(Store(m.c, t, cacheKey, searchResp, SearchTTL),
                        searchResp)

GetPageFull(c, t, wikiURL, title, disc, net, r) ==
    LET cacheKey == PageCacheKey(wikiURL, title)
        cached == Cached(c, t, cacheKey)
        m == MakeRequest(c, wikiURL, disc, net[1], "full",
                         Upstream("full", title, r))
    IN  IF cached.ok THEN ReturnCached(c, cached, "PageFull")
        ELSE IF m.err # None THEN Fail(m.c, Wrap("get page full", m.err))
        ELSE IF m.resp.Parse = None
        THEN Fail(m.c, Error("empty parse response"))
        ELSE LET markdown == HTMLToMarkdown(m.resp.Parse.Text)
                 pageFull == [type |-> "PageFull",
                              Title |-> m.resp.Parse.Title,
                              Content |-> markdown,
                              Links |-> m.resp.Parse.Links,
                              WordCount |-> CountWords(markdown)]
             IN  Return(Store(m.c, t, cacheKey, pageFull, GetCacheTTL),
                        pageFull)

GetBacklinks(c, t, wikiURL, title, limit, disc, net, r) ==
    LET cacheKey == BacklinksCacheKey(wikiURL, title \o ":" \o Itoa(limit))
        cached == Cached(c, t, cacheKey)
        m == MakeRequest(c, wikiURL, disc, net[1], "backlinks",
                         Upstream("backlinks", title, r))
    IN  IF cached.ok THEN ReturnCached(c, cached, "BacklinksResponse")
        ELSE IF m.err # None THEN Fail(m.c, Wrap("get backlinks", m.err))
        ELSE IF m.resp.Query = None
        THEN Fail(m.c, Error("empty query response"))
        ELSE LET backlinksResp ==
                     [type |-> "BacklinksResponse",
                      Title |-> title,
                      Backlinks |-> m.resp.Query.Backlinks,
                      TotalCount |-> Len(m.resp.Query.Backlinks)]
             IN  Return(Store(m.c, t, cacheKey, backlinksResp, GetCacheTTL),
                        backlinksResp)

\* CompareRevisions reads and writes no cache entry.
CompareRevisions(c, t, wikiURL, title, fromRev, toRev, disc, net, r) ==
    LET m == MakeRequest(c, wikiURL, disc, net[1], "compare",
                         Upstream("compare", title, r))
    IN  IF m.err # None THEN Fail(m.c, Wrap("compare revisions", m.err))
        ELSE IF m.resp.Compare = None
        THEN Fail(m.c, Error("empty compare response"))
        ELSE Return(m.c, [type |-> "CompareResponse",
                          Title |-> title,
                          From |-> m.resp.Compare.FromRevID,
                          To |-> m.resp.Compare.ToRevID,
                          DiffMarkdown |-> HTMLToMarkdown(m.resp.Compare.Body)])

\* getParentCategories
getParentCategories(c, wikiURL, category, disc, api, r) ==
    LET m == MakeRequest(c, wikiURL, disc, api, "categories",
                         Upstream("categories", category, r))
    IN  IF m.err # None THEN Fail(m.c, m.err)
        ELSE IF m.resp.Query = None THEN Return(m.c, <<>>)
        ELSE Return(m.c, m.resp.Query.Pages[1].Categories)

\* The parent categories as getParentCategories returned them: nil when
\* it failed.
ParentsAsReturned(parents) == parents.value

\* GetCategory: "Non-fatal, continue without parent categories".
ParentsOrEmpty(parents) ==
    IF parents.err # None THEN <<>> ELSE parents.value

GetCategory(c, t, wikiURL, category, limit, disc, net, r) ==
    LET cacheKey == CategoryCacheKey(wikiURL, category \o ":" \o Itoa(limit))
        cached == Cached(c, t, cacheKey)
    IN  IF cached.ok THEN ReturnCached(c, cached, "CategoryResponse")
        ELSE With(MakeRequest(c, wikiURL, disc, net[1], "categorymembers",
                              Upstream("categorymembers", category, r)),
        LAMBDA m :
        IF m.err # None THEN Fail(m.c, Wrap("get category", m.err))
        ELSE IF m.resp.Query = None
        THEN Fail(m.c, Error("empty query response"))
        ELSE With(getParentCategories(m.c, wikiURL, category, disc, net[2], r),
        LAMBDA parents :
        LET members == m.resp.Query.Categorymembers
            categoryResp ==
                [type |-> "CategoryResponse",
                 Category |-> category,
                 Members |-> members,
                 ParentCategories |-> ParentsOrEmpty(parents),
                 TotalMembers |-> Len(members)]
        IN  Return(Store(parents.c, t, cacheKey, categoryResp, GetCacheTTL),
                   categoryResp)))

\* getPageWikitext
getPageWikitext(c, wikiURL, title, disc, api, r) ==
    LET m == MakeRequest(c, wikiURL, disc, api, "wikitext",
                         Upstream("wikitext", title, r))
    IN  IF m.err # None THEN Fail(m.c, m.err)
        ELSE IF m.resp.Query = None THEN Fail(m.c, Error("no pages found"))
        ELSE Return(m.c, m.resp.Query.Pages[1].Revisions[1].Content)

GetPageOutline(c, t, wikiURL, title, disc, net, r) ==
    LET cacheKey == PageCacheKey(wikiURL, title \o ":outline")
        cached == Cached(c, t, cacheKey)
    IN  IF cached.ok THEN ReturnCached(c, cached, "PageOutline")
        ELSE With(MakeRequest(c, wikiURL, disc, net[1], "skeleton",
                              Upstream("skeleton", title, r)),
        LAMBDA m1 :
        IF m1.err # None
        THEN ReturnError(m1.c, t, cacheKey, Wrap("get page outline", m1.err))
        ELSE IF m1.resp.Parse = None
        THEN Fail(m1.c, Error("empty parse response"))
        ELSE With(MakeRequest(m1.c, wikiURL, disc, net[2], "lead",
                              Upstream("lead", title, r)),
        LAMBDA m2 :
        IF m2.err # None
        THEN ReturnError(m2.c, t, cacheKey, Wrap("get lead section", m2.err))
        \* leadResp.Parse.Text.Content with a nil leadResp.Parse
        ELSE IF m2.resp.Parse = None THEN Fail(m2.c, Panic)
        ELSE With(getPageWikitext(m2.c, wikiURL, title, disc, net[3], r),
        LAMBDA w :
        With(AssembleOutline(m1.resp.Parse.Title, m1.resp.Parse.Sections,
                             HTMLToMarkdown(m2.resp.Parse.Text),
                             IF w.err = None THEN ExtractInfobox(w.value)
                             ELSE None),
        LAMBDA outline :
        Return(Store(w.c, t, cacheKey, outline, GetCacheTTL), outline)))))

\* GetPageSection.  The result carries the outline it looked the section
\* up in (aux), None when it did not get that far.
GetPageSection(c, t, wikiURL, title, sectionIndex, disc, net, r) ==
    LET cacheKey == SectionCacheKey(wikiURL, title, Itoa(sectionIndex))
        cached == Cached(c, t, cacheKey)
        hit == ReturnCached(c, cached, "PageSection")
    IN  IF cached.ok
        THEN [c |-> c, err |-> hit.err, value |-> hit.value, aux |-> None]
        ELSE With(GetPageOutline(c, t, wikiURL, title, disc, net, r),
        LAMBDA o :
        LET aux(res) == [c |-> res.c, err |-> res.err, value |-> res.value,
                         aux |-> o.value]
            \* the requests the outline has used up
            used == Len(o.c.fetched) - Len(c.fetched)
        IN  IF o.err = Panic THEN aux(Fail(o.c, Panic))
            ELSE IF o.err # None
            THEN aux(Fail(o.c, Wrap("get page outline", o.err)))
            ELSE With(FindSection(o.value, sectionIndex),
            LAMBDA found :
            IF found.target = Nil
            THEN aux(Fail(o.c, SectionNotFoundError(
                              sectionIndex,
                              Len(flattenSections(o.value.Sections)))))
            ELSE With(MakeRequest(o.c, wikiURL, disc, net[used + 1], "section",
                                  Upstream("section", title, r)),
            LAMBDA m :
            IF m.err # None
            THEN aux(ReturnError(m.c, t, cacheKey, Wrap("get section", m.err)))
            ELSE IF m.resp.Parse = None
            THEN aux(Fail(m.c, Error("empty parse response")))
            ELSE With(BuildPageSection(title, o.value, found,
                                       HTMLToMarkdown(m.resp.Parse.Text)),
            LAMBDA pageSection :
            aux(Return(Store(m.c, t, cacheKey, pageSection, GetCacheTTL),
                       pageSection))))))

(***************************************************************************)
(* Spec: one client serving content operations, one after the other, for   *)
(* one wiki, while the clock advances, the sweep runs and the upstream     *)
(* page is edited.                                                         *)
(***************************************************************************)
WikiURL == "https://w"

PageTitle == "A"

SearchQuery == "q"

CategoryName == "C"

ResultLimit == 10

\* Section 2 is in every outline of the page; section 4 only once the page
\* has been edited.
SectionIndexes == {2, 4}

\* How an API request ends (see Decoded and Exchange): as the content
\* operations are checked with, and with the wiki's API errors.
Outcomes == {"ok", "err", "empty"}

ErrorOutcomes == {"ok", "err"} \cup APIErrorCodes

\* How the API requests of one call end, in the order they are sent: the
\* sequences over outs in which nothing follows a request whose failure
\* ends the call (fatal) and nothing lies beyond the n requests the call
\* can send.
NetChoices(outs, n, fatal) ==
    {net \in [1..4 -> outs] :
        /\ \A i \in (n + 1)..4 : net[i] = "ok"
        /\ \A i \in fatal : net[i] # "ok" => \A j \in (i + 1)..4 : net[j] = "ok"}

NetOne(outs) == NetChoices(outs, 1, {1})

NetCategory(outs) == NetChoices(outs, 2, {1})

NetOutline(outs) == NetChoices(outs, 3, {1, 2})

NetSection(outs) == NetChoices(outs, 4, {1, 2})

\* What endpoint discovery finds, should the call run it.
DiscChoices(wikiURL) ==
    IF wikiURL \in DOMAIN apiPaths THEN {"known"}
    ELSE {APIPaths[1], APIPaths[2], "none"}

\* err.Error()
RECURSIVE ErrorText(_)
ErrorText(err) ==
    CASE err.kind = "error" -> err.msg
      [] err.kind = "wrapped" -> err.msg \o ": " \o ErrorText(err.cause)
      [] err.kind = "APIError" ->
           "mediawiki api error: " \o err.Code \o ": " \o err.Message
      [] err.kind = "SectionNotFoundError" ->
           "section index " \o Itoa(err.SectionIndex)
              \o " does not exist (page has "
              \o Itoa(err.AvailableSections) \o " sections)"

\* mcp.ErrorResponse; hint "" and details None are left out of the JSON.
ErrorResponse(error, message, hint, details) ==
    [error |-> error, message |-> message, hint |-> hint,
     details |-> details]

APIErrorHint(code) ==
    CASE code = "missingtitle" ->
           "The page doesn't exist. Try using wiki_search to find the correct title."
      [] code = "nosuchsection" ->
           "The section doesn't exist. Call wiki_page_outline to get fresh section indices."
      [] code = "maxlag" ->
           "The wiki server is experiencing high load. Wait a moment and try again."
      [] OTHER -> ""

formatAPIError(err) ==
    ErrorResponse(err.Code, err.Message, APIErrorHint(err.Code), None)

formatSectionNotFoundError(err) ==
    ErrorResponse("section_not_found", ErrorText(err),
                  "Call wiki_page_outline to get fresh section indices.",
                  [section_index |-> err.SectionIndex,
                   available_sections |-> err.AvailableSections])

\* FormatError with no case for the section error.
FormatErrorNoSectionCase(err) ==
    IF err.kind = "APIError" THEN formatAPIError(err)
    ELSE ErrorResponse("internal_error", ErrorText(err), "", None)

\* FormatError: a switch on the dynamic type of err itself.
FormatError(err) ==
    IF err.kind = "APIError" THEN formatAPIError(err)
    ELSE IF err.kind = "SectionNotFoundError"
    THEN formatSectionNotFoundError(err)
    ELSE ErrorResponse("internal_error", ErrorText(err), "", None)

\* Server.errorResult and Server.successResult: the mcp.CallToolResult.
errorResult(err) == [IsError |-> TRUE, Content |-> FormatError(err)]

successResult(data) == [IsError |-> FALSE, Content |-> data]

\* What the handler returns for the operation's (value, err); a handler
\* that panics returns nothing.
ToolResult(err, value) ==
    IF err = Panic THEN None
    ELSE IF err # None THEN errorResult(err)
    ELSE successResult(value)

Context ==
    [items |-> items, limiters |-> limiters, apiPaths |-> apiPaths,
     sent |-> 0, fetched |-> <<>>, stored |-> {}]

\* The call of req returns r: the client state is the context's, ret is
\* the call with its log (net, how its API requests ended, in the order of
\* fetched), and hist keeps the successful calls that fetched.
\* (Of the outcomes net offers, the call has used up as many as it sent API
\* requests; the ones it left are "ok", so that no call is drawn twice.)
Complete(req, net, result) ==
    /\ calls < MaxCalls
    /\ \E r \in {result} :
          /\ \A i \in 1..4 : i > Len(r.c.fetched) => net[i] = "ok"
          /\ calls' = calls + 1
          /\ items' = r.c.items
          /\ limiters' = r.c.limiters
          /\ apiPaths' = r.c.apiPaths
          /\ ret' = [req |-> req, net |-> net, at |-> now, err |-> r.err,
                     value |-> r.value,
                     sent |-> r.c.sent, fetched |-> r.c.fetched,
                     stored |-> r.c.stored,
                     result |-> ToolResult(r.err, r.value),
                     aux |-> IF "aux" \in DOMAIN r THEN r.aux ELSE None,
                     prior |-> IF req \in DOMAIN hist THEN hist[req] ELSE None]
          /\ hist' = IF r.err = None /\ r.c.sent > 0
                     THEN [q \in DOMAIN hist \cup {req} |->
                             IF q = req THEN [at |-> now, value |-> r.value]
                             ELSE hist[q]]
                     ELSE hist
    /\ UNCHANGED <<now, ticks, rev, cacheHist, treeVars, reqVars>>

CallGetWikiInfo(wikiURL, outs) ==
    \E disc \in DiscChoices(wikiURL), net \in NetOne(outs) :
        Complete([op |-> "GetWikiInfo", wikiURL |-> wikiURL], net,
                 GetWikiInfo(Context, now, wikiURL, disc, net, rev))

CallSearchWiki(wikiURL, query, limit, outs) ==
    \E disc \in DiscChoices(wikiURL), net \in NetOne(outs) :
        Complete([op |-> "SearchWiki", wikiURL |-> wikiURL,
                  query |-> query, limit |-> limit], net,
                 SearchWiki(Context, now, wikiURL, query, limit, disc, net, rev))

CallGetPageOutline(wikiURL, title, outs) ==
    \E disc \in DiscChoices(wikiURL), net \in NetOutline(outs) :
        Complete([op |-> "GetPageOutline", wikiURL |-> wikiURL,
                  title |-> title], net,
                 GetPageOutline(Context, now, wikiURL, title, disc, net, rev))

CallGetPageSection(wikiURL, title, sectionIndex, outs) ==
    \E disc \in DiscChoices(wikiURL), net \in NetSection(outs) :
        Complete([op |-> "GetPageSection", wikiURL |-> wikiURL,
                  title |-> title, sectionIndex |-> sectionIndex], net,
                 GetPageSection(Context, now, wikiURL, title, sectionIndex,
                                disc, net, rev))

CallGetPageFull(wikiURL, title, outs) ==
    \E disc \in DiscChoices(wikiURL), net \in NetOne(outs) :
        Complete([op |-> "GetPageFull", wikiURL |-> wikiURL, title |-> title], net,
                 GetPageFull(Context, now, wikiURL, title, disc, net, rev))

CallGetCategory(wikiURL, category, limit, outs) ==
    \E disc \in DiscChoices(wikiURL), net \in NetCategory(outs) :
        Complete([op |-> "GetCategory", wikiURL |-> wikiURL,
                  category |-> category, limit |-> limit], net,
                 GetCategory(Context, now, wikiURL, category, limit,
                             disc, net, rev))

CallGetBacklinks(wikiURL, title, limit, outs) ==
    \E disc \in DiscChoices(wikiURL), net \in NetOne(outs) :
        Complete([op |-> "GetBacklinks", wikiURL |-> wikiURL,
                  title |-> title, limit |-> limit], net,
                 GetBacklinks(Context, now, wikiURL, title, limit,
                              disc, net, rev))

CallCompareRevisions(wikiURL, title, fromRev, toRev, outs) ==
    \E disc \in DiscChoices(wikiURL), net \in NetOne(outs) :
        Complete([op |-> "CompareRevisions", wikiURL |-> wikiURL,
                  title |-> title, fromRev |-> fromRev, toRev |-> toRev], net,
                 CompareRevisions(Context, now, wikiURL, title, fromRev, toRev,
                                  disc, net, rev))

\* The upstream page is edited.
Edit ==
    /\ rev < MaxRev
    /\ rev' = rev + 1
    /\ UNCHANGED <<cacheVars, cacheHist, treeVars, reqVars,
                   limiters, apiPaths, calls, ret, hist>>

\* The steps the clock advances by between calls.
OpSteps == {Duration(1), Seconds(1), Seconds(DefaultCacheTTL)}

Init ==
    /\ TreeOff
    /\ CacheStart
    /\ CacheHistOff
    /\ ClientStart

Next ==
    \/ CallGetWikiInfo(WikiURL, Outcomes)
    \/ CallSearchWiki(WikiURL, SearchQuery, ResultLimit, Outcomes)
    \/ CallGetPageOutline(WikiURL, PageTitle, Outcomes)
    \/ \E sectionIndex \in SectionIndexes :
          CallGetPageSection(WikiURL, PageTitle, sectionIndex, Outcomes)
    \/ CallGetPageFull(WikiURL, PageTitle, Outcomes)
    \/ CallGetCategory(WikiURL, CategoryName, ResultLimit, Outcomes)
    \/ CallGetBacklinks(WikiURL, PageTitle, ResultLimit, Outcomes)
    \/ CallCompareRevisions(WikiURL, PageTitle, "prev", "current", Outcomes)
    \/ Edit
    \/ cleanup
    \/ \E d \in OpSteps : Tick(d)

Spec == Init /\ [][Next]_vars

(***************************************************************************)
(* SpecSection: Spec restricted to the outline and the section operations. *)
(***************************************************************************)
\* The steps of the clock: within the content TTL and past it.
SectionSteps == {Seconds(1), Seconds(DefaultCacheTTL + 1)}

NextSection ==
    \/ CallGetPageOutline(WikiURL, PageTitle, Outcomes)
    \/ \E sectionIndex \in SectionIndexes :
          CallGetPageSection(WikiURL, PageTitle, sectionIndex, Outcomes)
    \/ Edit
    \/ cleanup
    \/ \E d \in SectionSteps : Tick(d)

SpecSection == Init /\ [][NextSection]_vars

(***************************************************************************)
(* SpecTools: the tools called one after the other on a wiki that answers  *)
(* the API requests with the payload or with an API error.                 *)
(***************************************************************************)
NextTools ==
    \/ CallGetWikiInfo(WikiURL, ErrorOutcomes)
    \/ CallSearchWiki(WikiURL, SearchQuery, ResultLimit, ErrorOutcomes)
    \/ CallGetPageOutline(WikiURL, PageTitle, ErrorOutcomes)
    \/ \E sectionIndex \in SectionIndexes :
          CallGetPageSection(WikiURL, PageTitle, sectionIndex, ErrorOutcomes)
    \/ CallGetPageFull(WikiURL, PageTitle, ErrorOutcomes)
    \/ CallGetCategory(WikiURL, CategoryName, ResultLimit, ErrorOutcomes)
    \/ CallGetBacklinks(WikiURL, PageTitle, ResultLimit, ErrorOutcomes)
    \/ CallCompareRevisions(WikiURL, PageTitle, "prev", "current",
                            ErrorOutcomes)

SpecTools == Init /\ [][NextTools]_vars

(***************************************************************************)
(* Properties of the content operations (Spec, SpecSection, SpecTools).    *)
(***************************************************************************)
\* The TTL of an operation's class: one minute for search, the metadata
\* TTL (one hour) for the wiki info, the content TTL (five minutes) for
\* the others.
ClassTTL(op) ==
    CASE op = "SearchWiki" -> Seconds(60)
      [] op = "GetWikiInfo" -> Seconds(60 * 60)
      [] OTHER -> Seconds(5 * 60)

\* C1: for every content operation, if a call succeeds and the same call
\* with identical arguments is repeated within the operation's TTL window,
\* the second call returns the same result and sends no upstream HTTP
\* request.  (ret.prior is the last successful call of the same request
\* that fetched its result: the call the window starts with.)
C1_RepeatWithinTTL ==
    (/\ ret # None
     /\ ret.prior # None
     /\ ~After(ret.at, Add(ret.prior.at, ClassTTL(ret.req.op)))) =>
        /\ ret.err = None
        /\ ret.value = ret.prior.value
        /\ ret.sent = 0

\* C1 for the operations other than SearchWiki and CompareRevisions.
C1_RepeatWithinTTLOthers ==
    (ret # None /\ ret.req.op \notin {"SearchWiki", "CompareRevisions"}) =>
        C1_RepeatWithinTTL

\* C1 for the operations that have a cache key, SearchWiki included.
C1_RepeatWithinTTLKeyed ==
    (ret # None /\ ret.req.op # "CompareRevisions") => C1_RepeatWithinTTL

\* C3: each cached result is stored with the expiration of its class:
\* search results expire one minute after being stored, wiki info after
\* the metadata TTL, outline, section, full page, category and backlinks
\* after the content TTL.  (Stated of the entries a call has just stored,
\* before the clock has advanced.)
C3_ClassExpiration ==
    (ret # None /\ ret.at = now) =>
        \A key \in ret.stored :
            /\ key \in DOMAIN items
            /\ items[key].expiration = Add(ret.at, ClassTTL(ret.req.op))

\* C3 for the operations other than SearchWiki.
C3_ClassExpirationOthers ==
    (ret # None /\ ret.req.op # "SearchWiki") => C3_ClassExpiration

\* C4: GetPageSection called with an index that matches no section of the
\* outline returns a SectionNotFoundError whose SectionIndex is the
\* requested index and whose AvailableSections is the number of sections
\* of the outline (4 for sections [0,1,2,3]); it sends no section-content
\* fetch and stores nothing under the section cache key.
C4_SectionNotFound ==
    (/\ ret # None
     /\ ret.req.op = "GetPageSection"
     /\ ret.aux # None
     /\ \A x \in 1..Len(ret.aux.Sections.nodes) :
           ret.aux.Sections.nodes[x].Index # ret.req.sectionIndex) =>
        /\ ret.err = [kind |-> "SectionNotFoundError",
                      SectionIndex |-> ret.req.sectionIndex,
                      AvailableSections |-> Len(ret.aux.Sections.nodes)]
        /\ "section" \notin Range(ret.fetched)
        /\ SectionCacheKey(ret.req.wikiURL, ret.req.title,
                           Itoa(ret.req.sectionIndex)) \notin ret.stored
        /\ {ret.aux.Sections.nodes[x].Index :
               x \in 1..Len(ret.aux.Sections.nodes)} = {0, 1, 2, 3}
              => ret.err.AvailableSections = 4

\* C4's case: section 4 has been requested of the page whose outline has
\* the sections [0,1,2,3], the outline fetched by the same call.
C4_Witness ==
    /\ ret # None
    /\ ret.req.op = "GetPageSection"
    /\ ret.req.sectionIndex = 4
    /\ ret.err = SectionNotFoundError(4, 4)
    /\ "skeleton" \in Range(ret.fetched)
    /\ ret.stored # {}

(***************************************************************************)
(* SpecClient: Client.MakeRequest called by concurrent callers.  A call is *)
(* a sequence of steps: the wait for a token of the wiki's rate limiter,   *)
(* the lookup of the wiki's API path, the discovery probes, the API        *)
(* request.  The caller's context may be cancelled between any two steps.  *)
(*                                                                         *)
(* rate.Limiter with burst 1, as golang.org/x/time/rate keeps it: free is  *)
(* the instant at which the bucket holds a whole token again (last and     *)
(* tokens, taken together), lastEvent the instant of the latest            *)
(* reservation.                                                            *)
(***************************************************************************)
ClientWikis == {"https://a", "https://b"}

\* config.Load's default MCP_RATE_LIMIT, requests per second, and the time
\* a token takes to fill: 1/rate.
RateLimit == 10

Interval == Duration(NsPerSecond \div RateLimit)

\* Time.Add of a negative Duration: the instant d before t.
Sub(t, d) ==
    IF t[2] >= d[2] THEN <<t[1] - d[1], t[2] - d[2]>>
    ELSE <<t[1] - d[1] - 1, t[2] + NsPerSecond - d[2]>>

\* ctx.Err() of a cancelled context.
Canceled == Error("context canceled")

\* rate.NewLimiter(c.rateLimit, 1): the bucket starts full.
NewLimiter == [free |-> <<0, 0>>, lastEvent |-> <<0, 0>>]

\* A limiter that hands out the token at once, the bucket full or not.
reserveNAtOnce(lim, t) ==
    [lim |-> [free |-> Add(t, Interval), lastEvent |-> t], timeToAct |-> t]

\* Limiter.reserveN(t, 1, InfDuration): the token is granted at timeToAct,
\* at once when the bucket is full and when it has filled otherwise.
reserveN(lim, t) ==
    LET timeToAct == IF After(lim.free, t) THEN lim.free ELSE t
    IN  [lim |-> [free |-> Add(timeToAct, Interval), lastEvent |-> timeToAct],
         timeToAct |-> timeToAct]

\* A limiter that grants only the token that is due: Allow for Wait.
reserveOKWhenDue(timeToAct, t) == ~After(timeToAct, t)

\* Reservation.ok of the reservation Wait makes: the wait for timeToAct is
\* within the time ctx leaves, which has no end as ctx has no deadline.
reserveOK(timeToAct, t) == TRUE

\* Reservation.CancelAt(t): the token goes back to the bucket unless it was
\* due before t or a later reservation has been built on it.
CancelAt(lim, timeToAct, t) ==
    IF After(t, timeToAct) THEN lim
    ELSE IF ~After(Add(timeToAct, Interval), lim.lastEvent) THEN lim
    ELSE [free |-> Sub(lim.free, Interval),
          lastEvent |-> IF lim.lastEvent = timeToAct
                           /\ ~After(Add(t, Interval), timeToAct)
                        THEN Sub(timeToAct, Interval)
                        ELSE lim.lastEvent]

\* One limiter for all the wikis.
LimiterKeyShared(wikiURL) == "*"

\* The key of a wiki's limiter in Client.limiters.
LimiterKey(wikiURL) == wikiURL

\* getLimiter without the second check: the limiter is made and stored
\* whatever the map holds by then.
getLimiterNoRecheck(ls, wikiURL) ==
    [k \in DOMAIN ls \cup {LimiterKey(wikiURL)} |->
        IF k = LimiterKey(wikiURL) THEN NewLimiter ELSE ls[k]]

\* Client.getLimiter: the wiki's limiter, created when it has none.
getLimiter(ls, wikiURL) ==
    IF LimiterKey(wikiURL) \in DOMAIN ls THEN ls
    ELSE [k \in DOMAIN ls \cup {LimiterKey(wikiURL)} |->
             IF k = LimiterKey(wikiURL) THEN NewLimiter ELSE ls[k]]

\* What has gone to a wiki: entered, the instant its first call began;
\* sent, the HTTP requests sent to it (probes included); grants, the
\* instants of the tokens its calls have left the wait with.
NewWire(t) == [entered |-> t, sent |-> 0, grants |-> <<>>]

\* A call of MakeRequest as it starts: limiterFrom, where getLimiter got
\* the limiter ("map": found at the first look, "recheck": found under the
\* write lock, "made": created); ctx, the caller's context, and
\* cancelledIn, the step it was cancelled in; timeToAct, the instant of the
\* reserved token while the call waits for it; lookup, what getAPIPath
\* found cached ("none": nothing, "": not looked up yet); probed, the candidates it has tried, and ok, whether each
\* answered HTTP 200; path, what it returned; sentAPI, whether the API
\* request went out, and gets, how many times; body, the mwResponse its answer was decoded to; err
\* and resp, what MakeRequest returned.
BeginRequest(wikiURL) ==
    [pc |-> "wait", wiki |-> wikiURL, limiterFrom |-> "map", ctx |-> "live",
     cancelledIn |-> "none",
     timeToAct |-> None, lookup |-> "", probed |-> <<>>, ok |-> <<>>,
     path |-> "", sentAPI |-> FALSE, gets |-> 0, body |-> None,
     err |-> None, resp |-> None]

Granted(w, timeToAct) == [wire EXCEPT ![w].grants = Append(@, timeToAct)]

Sent(w) == [wire EXCEPT ![w].sent = @ + 1]

Finish(p, err, resp) ==
    reqs' = [reqs EXCEPT ![p].pc = "done", ![p].timeToAct = None,
                         ![p].err = err, ![p].resp = resp]

\* MakeRequest is called: getLimiter.  The callers are numbered in the
\* order of their calls.
Begin(p, wikiURL) ==
    /\ reqs[p].pc = "idle"
    /\ \A q \in Callers : q < p => reqs[q].pc # "idle"
    /\ reqs' = [reqs EXCEPT ![p] = BeginRequest(wikiURL)]
    /\ lims' = getLimiter(lims, wikiURL)
    /\ limiters' = limiters \cup {wikiURL}
    /\ wire' = IF wikiURL \in DOMAIN wire THEN wire
               ELSE [w \in DOMAIN wire \cup {wikiURL} |->
                        IF w = wikiURL THEN NewWire(now) ELSE wire[w]]
    /\ UNCHANGED <<treeVars, cacheVars, cacheHist, apiPaths, rev, calls, ret,
                   hist>>

\* limiter.Wait(ctx) is entered: a context already done fails it; else it
\* reserves a token and returns at once or starts to wait for timeToAct.
Wait(p) ==
    /\ reqs[p].pc = "wait"
    /\ LET w == reqs[p].wiki
           k == LimiterKey(w)
           r == reserveN(lims[k], now)
       IN  IF reqs[p].ctx # "live"
           THEN /\ Finish(p, Wrap("rate limit wait", Canceled), None)
                /\ UNCHANGED <<lims, wire>>
           ELSE IF ~reserveOK(r.timeToAct, now)
           THEN /\ Finish(p, Wrap("rate limit wait",
                                  Error("would exceed context deadline")),
                          None)
                /\ UNCHANGED <<lims, wire>>
           ELSE /\ lims' = [lims EXCEPT ![k] = r.lim]
                /\ IF After(r.timeToAct, now)
                   THEN /\ reqs' = [reqs EXCEPT ![p].pc = "waiting",
                                                ![p].timeToAct = r.timeToAct]
                        /\ wire' = wire
                   ELSE /\ reqs' = [reqs EXCEPT ![p].pc = "path"]
                        /\ wire' = Granted(w, r.timeToAct)
    /\ UNCHANGED <<treeVars, cacheVars, cacheHist, opVars>>

\* The timer of the wait fires: the token is the caller's.
WaitDone(p) ==
    /\ reqs[p].pc = "waiting"
    /\ ~After(reqs[p].timeToAct, now)
    /\ reqs' = [reqs EXCEPT ![p].pc = "path", ![p].timeToAct = None]
    /\ wire' = Granted(reqs[p].wiki, reqs[p].timeToAct)
    /\ UNCHANGED <<treeVars, cacheVars, cacheHist, opVars, lims>>

\* ctx.Done() wins the wait: the reservation is cancelled.
WaitCancel(p) ==
    /\ reqs[p].pc = "waiting"
    /\ reqs[p].ctx # "live"
    /\ lims' = [lims EXCEPT ![LimiterKey(reqs[p].wiki)] =
                   CancelAt(@, reqs[p].timeToAct, now)]
    /\ Finish(p, Wrap("rate limit wait", Canceled), None)
    /\ UNCHANGED <<treeVars, cacheVars, cacheHist, opVars, wire>>

\* getAPIPath is entered: the lookup of the wiki's cached path.
Lookup(p) ==
    /\ reqs[p].pc = "path"
    /\ LET w == reqs[p].wiki
       IN  reqs' = IF w \in DOMAIN apiPaths
                   THEN [reqs EXCEPT ![p].pc = "api",
                                     ![p].lookup = apiPaths[w],
                                     ![p].path = apiPaths[w]]
                   ELSE [reqs EXCEPT ![p].pc = "probe",
                                     ![p].lookup = "none"]
    /\ UNCHANGED <<treeVars, cacheVars, cacheHist, opVars, lims, wire>>

\* What a probe ends with: HTTP 200, another status, or no response.
ProbeAnswers == {"200", "404", "err"}

\* Discovery that tries the candidates from the last to the first.
CandidateReversed(n) == APIPaths[Len(APIPaths) + 1 - n]

\* The n-th path getAPIPath tries.
Candidate(n) == APIPaths[n]

\* Discovery that caches the path it tried last when none answered.
PathToCacheLast(answer, last) == answer = "200" \/ last

\* Whether getAPIPath caches the path a probe has tried.
PathToCache(answer, last) == answer = "200"

\* One pass of getAPIPath's loop: the probe of the next candidate.  With a
\* context that is done httpClient.Do fails and sends nothing.
Probe(p, answer) ==
    /\ reqs[p].pc = "probe"
    /\ reqs[p].ctx # "live" => answer = "err"
    /\ LET w == reqs[p].wiki
           n == Len(reqs[p].probed) + 1
           path == Candidate(n)
           last == n = Len(APIPaths)
           tried == [reqs EXCEPT ![p].probed = Append(@, path),
                                 ![p].ok = Append(@, answer = "200")]
       IN  /\ wire' = IF reqs[p].ctx = "live" THEN Sent(w) ELSE wire
           /\ apiPaths' = IF PathToCache(answer, last)
                          THEN [u \in DOMAIN apiPaths \cup {w} |->
                                   IF u = w THEN path ELSE apiPaths[u]]
                          ELSE apiPaths
           /\ reqs' = IF answer = "200"
                      THEN [tried EXCEPT ![p].pc = "api", ![p].path = path]
                      ELSE IF last
                      THEN [tried EXCEPT
                               ![p].pc = "done",
                               ![p].err =
                                   Error("could not find valid API endpoint")]
                      ELSE tried
    /\ UNCHANGED <<treeVars, cacheVars, cacheHist, limiters, rev, calls, ret,
                   hist, lims>>

\* A client that sends the API request again when it has failed.
AfterAPIRetry(err) == IF err # None THEN "api" ELSE "done"

\* Where MakeRequest goes once httpClient.Do has returned: it returns, the
\* request failed or not.
AfterAPI(err) == "done"

\* How the API request ends: see Exchange.
APIAnswers == {"ok", "err", "maxlag"}

\* The API request: httpClient.Do and what follows it.
API(p, api) ==
    /\ reqs[p].pc = "api"
    /\ LET w == reqs[p].wiki
           payload == Upstream("siteinfo", "", 0)
           x == Exchange(api, payload)
       IN  IF reqs[p].ctx # "live"
           THEN /\ api = "err"
                /\ Finish(p, Wrap("http request", Canceled), None)
                /\ wire' = wire
           ELSE /\ reqs' = [reqs EXCEPT ![p].pc = AfterAPI(x.err),
                                        ![p].sentAPI = TRUE,
                                        ![p].gets = @ + 1,
                                        ![p].body =
                                            IF api = "err" THEN None
                                            ELSE Decoded(api, payload),
                                        ![p].err = x.err,
                                        ![p].resp = x.resp]
                /\ wire' = Sent(w)
    /\ UNCHANGED <<treeVars, cacheVars, cacheHist, opVars, lims>>

\* The caller's context is cancelled while the call is in progress.
Cancel(p) ==
    /\ reqs[p].pc \in {"wait", "waiting", "path", "probe", "api"}
    /\ reqs[p].ctx = "live"
    /\ reqs' = [reqs EXCEPT ![p].ctx = "Canceled",
                            ![p].cancelledIn = reqs[p].pc]
    /\ UNCHANGED <<treeVars, cacheVars, cacheHist, opVars, lims, wire>>

\* The clock advances by the limiter's interval while a bucket is filling:
\* once every bucket is full the passing of time changes nothing.
Advance ==
    /\ \E k \in DOMAIN lims : After(lims[k].free, now)
    /\ now' = Add(now, Interval)
    /\ UNCHANGED <<items, ticks, treeVars, cacheHist, opVars, reqVars>>

NextClient ==
    \/ \E p \in Callers, w \in ClientWikis : Begin(p, w)
    \/ \E p \in Callers : Wait(p)
    \/ \E p \in Callers : WaitDone(p)
    \/ \E p \in Callers : WaitCancel(p)
    \/ \E p \in Callers : Lookup(p)
    \/ \E p \in Callers, answer \in ProbeAnswers : Probe(p, answer)
    \/ \E p \in Callers, api \in APIAnswers : API(p, api)
    \/ \E p \in Callers : Cancel(p)
    \/ Advance

SpecClient == Init /\ [][NextClient]_vars

\* SpecClient with the steps the Go runtime does not withhold: the clock
\* runs on, a timer that is due fires, and a goroutine that can take its
\* next step takes it.  Nobody has to call and no context has to be
\* cancelled.
SpecClientFair ==
    /\ SpecClient
    /\ WF_vars(Advance)
    /\ \A p \in Callers :
          /\ WF_vars(Wait(p))
          /\ WF_vars(WaitDone(p))
          /\ WF_vars(WaitCancel(p))
          /\ WF_vars(Lookup(p))
          /\ WF_vars(\E answer \in ProbeAnswers : Probe(p, answer))
          /\ WF_vars(\E api \in APIAnswers : API(p, api))

(***************************************************************************)
(* The claims on SpecClient.                                               *)
(***************************************************************************)
Begun == {p \in Callers : reqs[p].pc # "idle"}

Finished == {p \in Callers : reqs[p].pc = "done"}

IsPrefix(s, t) == Len(s) <= Len(t) /\ \A i \in 1..Len(s) : s[i] = t[i]

\* The calls that ran the discovery, and those that found the path cached.
Discovering == {p \in Begun : reqs[p].lookup = "none"}

FoundCached == {p \in Begun : reqs[p].lookup \notin {"", "none"}}

\* What holds of the discovery in every state: the candidates are probed in
\* the order of APIPaths; no candidate is probed after one has answered 200,
\* and the one that has is the path returned; a call that found the path
\* cached returns it and probes nothing.
DiscoveryInOrder ==
    /\ \A p \in Begun :
          /\ IsPrefix(reqs[p].probed, APIPaths)
          /\ Len(reqs[p].ok) = Len(reqs[p].probed)
          /\ \A i \in 1..Len(reqs[p].ok) :
                reqs[p].ok[i] =>
                   /\ i = Len(reqs[p].ok)
                   /\ reqs[p].path = reqs[p].probed[i]
                   /\ reqs[p].wiki \in DOMAIN apiPaths
    /\ \A p \in Discovering :
          reqs[p].path # "" =>
             /\ reqs[p].probed # <<>>
             /\ reqs[p].ok[Len(reqs[p].ok)]
    /\ \A p \in FoundCached :
          /\ reqs[p].probed = <<>>
          /\ reqs[p].path = reqs[p].lookup

\* What holds of every step: the candidate that answers 200 is cached at
\* once; a cached path is never forgotten; the lookup of a wiki whose path
\* is cached returns that path and sends nothing.
DiscoveryStep ==
    /\ \A w \in DOMAIN apiPaths : w \in DOMAIN apiPaths'
    /\ \A p \in Callers :
          /\ reqs[p].pc = "probe" /\ reqs'[p].pc = "api"
                => apiPaths'[reqs[p].wiki] = reqs'[p].path
          /\ reqs[p].pc = "path" /\ reqs'[p].pc # "path"
             /\ reqs[p].wiki \in DOMAIN apiPaths
                => /\ reqs'[p].pc = "api"
                   /\ reqs'[p].lookup = apiPaths[reqs[p].wiki]
                   /\ wire' = wire

\* C11: discovery probes /api.php, then /w/api.php, returns and caches the
\* first that answers HTTP 200 and probes no later candidate; once a path is
\* cached every later MakeRequest for the wiki uses it and sends no probe.
C11_DiscoverOnce == []DiscoveryInOrder /\ [][DiscoveryStep]_vars

\* C11's case: the primary answered non-200 and the secondary 200 to one
\* call, and a later call for the wiki has sent its API request to the
\* cached secondary path without a probe.
C11_Witness ==
    \E p, q \in Finished :
        /\ reqs[p].wiki = reqs[q].wiki
        /\ reqs[p].probed = APIPaths
        /\ reqs[p].ok = <<FALSE, TRUE>>
        /\ reqs[q].lookup = APIPaths[2]
        /\ reqs[q].probed = <<>>
        /\ reqs[q].sentAPI
        /\ wire[reqs[q].wiki].sent = 4

\* The calls whose discovery has ended with no candidate answering 200.
NoEndpoint ==
    {p \in Finished : reqs[p].lookup = "none" /\ reqs[p].path = ""}

DiscoveryFailed ==
    \A p \in NoEndpoint :
        /\ reqs[p].err = Error("could not find valid API endpoint")
        /\ reqs[p].resp = None
        /\ ~reqs[p].sentAPI
        /\ reqs[p].probed = APIPaths
        /\ \A i, j \in 1..Len(reqs[p].probed) :
              reqs[p].probed[i] = reqs[p].probed[j] => i = j
        /\ \A i \in 1..Len(reqs[p].ok) : ~reqs[p].ok[i]

\* The step that ends a discovery without a path stores nothing, and the
\* lookup of a wiki with no cached path starts a discovery.
DiscoveryFailedStep ==
    \A p \in Callers :
        /\ reqs[p].pc = "probe" /\ reqs'[p].pc = "done"
              => apiPaths' = apiPaths
        /\ reqs[p].pc = "path" /\ reqs'[p].pc # "path"
           /\ reqs[p].wiki \notin DOMAIN apiPaths
              => /\ reqs'[p].pc = "probe"
                 /\ reqs'[p].probed = <<>>

\* C12: when no candidate answers HTTP 200 MakeRequest returns an error and
\* sends no API request, each candidate probed once at most; nothing is
\* stored in the endpoint cache, so that a later request for the wiki
\* probes the candidates again.
C12_NoEndpoint == []DiscoveryFailed /\ [][DiscoveryFailedStep]_vars

\* C12's case: a call has failed for want of an endpoint, the wiki has no
\* cached path, and another call for the wiki is probing again.
C12_Witness ==
    \E p \in NoEndpoint, q \in Begun :
        /\ reqs[q].wiki = reqs[p].wiki
        /\ reqs[p].wiki \notin DOMAIN apiPaths
        /\ reqs[q].pc = "probe"
        /\ reqs[q].probed = <<APIPaths[1]>>
        /\ wire[reqs[p].wiki].sent = 3

\* C13: every HTTP request sent to a wiki, the discovery probes included,
\* is preceded by its own token of the wiki's limiter: the requests sent to
\* a wiki are never more than the tokens granted for it.
C13_TokenPerRequest ==
    \A w \in DOMAIN wire : wire[w].sent <= Len(wire[w].grants)

\* What the code keeps of it: one token for every API request.
C13_TokenPerAPIRequest ==
    \A w \in DOMAIN wire :
        Cardinality({p \in Begun : reqs[p].wiki = w /\ reqs[p].sentAPI})
            <= Len(wire[w].grants)

\* The time k calls take at the least: (k-1)/r.
MinSpan(k) == Duration((k - 1) * (NsPerSecond \div RateLimit))

\* C14: for each wiki any two token grants are 1/r apart or more, so that
\* the k calls admitted for a wiki have taken (k-1)/r or more since the
\* first of them began, whatever the interleaving of the callers.
C14_GrantSpacing ==
    \A w \in DOMAIN wire :
        LET g == wire[w].grants
        IN  /\ \A i, j \in 1..Len(g) :
                  i # j => \/ ~After(Add(g[i], Interval), g[j])
                           \/ ~After(Add(g[j], Interval), g[i])
            /\ Len(g) > 0 => ~After(Add(wire[w].entered, MinSpan(Len(g))), now)

\* C14's case: two calls for one wiki began at the same instant; the second
\* has waited and is admitted exactly 1/r after the first.
C14_Witness ==
    \E w \in DOMAIN wire :
        /\ wire[w].grants = <<wire[w].entered, Add(wire[w].entered, Interval)>>
        /\ now = Add(wire[w].entered, Interval)
        /\ \A p \in Callers : reqs[p].pc \notin {"idle", "wait", "waiting"}

\* errors.Is(err, target): target is err or one of the errors it wraps.
RECURSIVE ErrorsIs(_, _)
ErrorsIs(err, target) ==
    IF err = target THEN TRUE
    ELSE IF err = None THEN FALSE
    ELSE IF err.kind = "wrapped" THEN ErrorsIs(err.cause, target)
    ELSE FALSE

\* The calls that the rate-limiter wait has failed.
WaitFailed ==
    {p \in Finished : reqs[p].err # None /\ reqs[p].err.kind = "wrapped"
                      /\ reqs[p].err.msg = "rate limit wait"}

\* The call has its token and has sent an HTTP request.
AtHTTP(p) ==
    /\ reqs[p].pc \notin {"idle", "wait", "waiting"}
    /\ p \notin WaitFailed
    /\ reqs[p].probed # <<>> \/ reqs[p].sentAPI

LimiterOf(ls, w) ==
    IF LimiterKey(w) \in DOMAIN ls THEN ls[LimiterKey(w)] ELSE None

\* The callers whose call for wiki w takes a step.
Stepping(w) ==
    {p \in Callers : reqs'[p] # reqs[p] /\ reqs'[p].wiki = w}

\* A step changes the limiter of a wiki only for a call made to that wiki,
\* and a call has to wait only when another call for its wiki has been at
\* the limiter before it.
LimiterStep ==
    /\ \A w \in ClientWikis :
          LimiterOf(lims', w) # LimiterOf(lims, w) => Stepping(w) # {}
    /\ \A p \in Callers :
          reqs[p].pc = "wait" /\ reqs'[p].pc = "waiting"
             => \E q \in Begun \ {p} :
                   /\ reqs[q].wiki = reqs[p].wiki
                   /\ reqs[q].pc # "wait"

\* C16: acquiring a token for one wiki leaves the limiter of every other
\* wiki as it was; a request to a wiki is never delayed because of the
\* requests made to another.
C16_LimiterPerWiki == [][LimiterStep]_vars

\* C16's case: calls for two wikis made at the same instant have both been
\* granted their token at that instant.
C16_Witness ==
    /\ DOMAIN wire = ClientWikis
    /\ \A w \in ClientWikis :
          wire[w].grants = <<now>> /\ wire[w].entered = now

\* The calls that were cancelled during the rate-limiter wait, a discovery
\* probe or the API request, and have returned.
CancelledInCall ==
    {p \in Finished : reqs[p].cancelledIn \in {"waiting", "probe", "api"}}

\* C17: a call whose context is cancelled during the rate-limiter wait, a
\* discovery probe or the API request returns an error that carries the
\* context's error; cancelled during the wait, it sends no HTTP request.
C17_CancelPropagates ==
    \A p \in CancelledInCall :
        /\ ErrorsIs(reqs[p].err, Canceled)
        /\ reqs[p].cancelledIn = "waiting" =>
              /\ ~reqs[p].sentAPI
              /\ (\A q \in Begun \ {p} : reqs[q].wiki # reqs[p].wiki)
                    => wire[reqs[p].wiki].sent = 0

\* What the code keeps of it: the context's error is carried unless the
\* call ended in the discovery.
C17_CancelPropagatesPastDiscovery ==
    \A p \in CancelledInCall \ NoEndpoint :
        /\ ErrorsIs(reqs[p].err, Canceled)
        /\ ~reqs[p].sentAPI

\* The calls whose answer was decoded, and those among them whose answer
\* contains an error object.
Answered == {p \in Finished : reqs[p].body # None}

AnsweredError == {p \in Answered : reqs[p].body.Error # None}

\* C18: whenever the decoded response contains an error object MakeRequest
\* returns an APIError with the object's code and message and no response,
\* even when the response also contains a query, parse or compare payload.
C18_ErrorEnvelopeFirst ==
    /\ \A p \in AnsweredError :
          /\ reqs[p].err = APIError(reqs[p].body.Error.Code,
                                    reqs[p].body.Error.Info)
          /\ reqs[p].resp = None
    /\ \A p \in Answered \ AnsweredError :
          reqs[p].err = None /\ reqs[p].resp = reqs[p].body

\* C18's case: an answer with the error maxlag and a query payload has been
\* returned as the APIError maxlag.
C18_Witness ==
    \E p \in AnsweredError :
        /\ reqs[p].body.Query # None
        /\ reqs[p].body.Error.Code = "maxlag"
        /\ reqs[p].err.kind = "APIError"
        /\ reqs[p].err.Code = "maxlag"

(***************************************************************************)
(* The claims on the tool results (SpecTools, SpecSection).                *)
(***************************************************************************)
\* errors.As(err, &apiErr): the APIError that err is or wraps, if any.
RECURSIVE AsAPIError(_)
AsAPIError(err) ==
    IF err = None THEN None
    ELSE IF err.kind = "APIError" THEN err
    ELSE IF err.kind = "wrapped" THEN AsAPIError(err.cause)
    ELSE None

\* The last call failed because the wiki answered with an API error.
FailedUpstream == ret # None /\ AsAPIError(ret.err) # None

\* C19: when a tool operation fails because the wiki answered with an API
\* error, the structured error of the tool result has the upstream code as
\* its error field and the recovery hint of that code: missingtitle the
\* hint to use wiki_search, nosuchsection the hint to refresh the outline,
\* maxlag the hint to wait and retry.
C19_UpstreamCodeAndHint ==
    FailedUpstream =>
        /\ ret.result.IsError
        /\ ret.result.Content.error = AsAPIError(ret.err).Code
        /\ ret.result.Content.hint = APIErrorHint(AsAPIError(ret.err).Code)

\* What the code gives instead: the error internal_error with no hint, the
\* upstream code being part of the message only.
C19_UpstreamAsInternal ==
    FailedUpstream =>
        /\ ret.result.IsError
        /\ ret.result.Content =
              ErrorResponse("internal_error", ErrorText(ret.err), "", None)

\* The last call is a wiki_page_section with an index the page's outline,
\* fetched by the call, does not have.
NoSuchIndex ==
    /\ ret # None
    /\ ret.req.op = "GetPageSection"
    /\ ret.aux # None
    /\ \A x \in 1..Len(ret.aux.Sections.nodes) :
          ret.aux.Sections.nodes[x].Index # ret.req.sectionIndex

\* C20: wiki_page_section called with an index the page does not have
\* yields a tool result flagged as an error, with error section_not_found,
\* the hint to call wiki_page_outline, and details holding the requested
\* index and the number of sections found.
C20_SectionNotFoundResult ==
    NoSuchIndex =>
        /\ ret.result.IsError
        /\ ret.result.Content.error = "section_not_found"
        /\ ret.result.Content.hint =
              "Call wiki_page_outline to get fresh section indices."
        /\ ret.result.Content.details =
              [section_index |-> ret.req.sectionIndex,
               available_sections |-> Len(ret.aux.Sections.nodes)]

\* C20's case: section 4 has been asked of a page with the sections
\* [0,1,2,3] and the tool result is the section_not_found error.
C20_Witness ==
    /\ NoSuchIndex
    /\ ret.req.sectionIndex = 4
    /\ ret.result.IsError
    /\ ret.result.Content.error = "section_not_found"
    /\ ret.result.Content.details.available_sections = 4
    /\ ret.result.Content.message =
          "section index 4 does not exist (page has 4 sections)"

(***************************************************************************)
(* Further claims on the content operations (Spec, SpecTools).             *)
(***************************************************************************)
\* C21: no content operation panics: whatever the decodable upstream
\* responses (a successful one without its query, parse or compare envelope
\* included) and whatever the cache holds, each operation returns a result
\* or an error value.
C21_NoPanic ==
    ret # None => (ret.err # Panic /\ ret.result # None)

\* C21 for the operations other than GetPageOutline and GetPageSection,
\* which calls it.
C21_NoPanicOthers ==
    (ret # None /\ ret.req.op \notin {"GetPageOutline", "GetPageSection"})
        => (ret.err # Panic /\ ret.result # None)

\* The last call is a GetCategory whose members fetch succeeded and whose
\* parent-category call failed, or a GetPageOutline whose two parse fetches
\* succeeded and whose wikitext fetch failed.
ParentsFailed ==
    /\ ret # None
    /\ ret.req.op = "GetCategory"
    /\ ret.fetched = <<"categorymembers", "categories">>
    /\ ret.net[1] = "ok" /\ ret.net[2] # "ok"

WikitextFailed ==
    /\ ret # None
    /\ ret.req.op = "GetPageOutline"
    /\ ret.fetched = <<"skeleton", "lead", "wikitext">>
    /\ ret.net[1] = "ok" /\ ret.net[2] = "ok" /\ ret.net[3] # "ok"

\* C22: the auxiliary enrichments fail open: GetCategory returns a
\* successful result with an empty parent-category list when the members
\* fetch succeeds and the parent-category call fails; GetPageOutline
\* returns a successful outline without an infobox when its two parse
\* fetches succeed and the wikitext fetch fails.
C22_FailOpen ==
    /\ ParentsFailed =>
          /\ ret.err = None
          /\ ~ret.result.IsError
          /\ ret.value.ParentCategories = <<>>
          /\ ret.value.Members # <<>>
    /\ WikitextFailed =>
          /\ ret.err = None
          /\ ~ret.result.IsError
          /\ ret.value.Infobox = None
          /\ ret.value.Sections.nodes # <<>>

\* C22's cases: each of the two has happened.
C22_Witness ==
    ParentsFailed /\ ret.stored # {} /\ ret.sent >= 2

C22_WitnessOutline ==
    WikitextFailed /\ ret.stored # {} /\ ret.sent >= 3

(***************************************************************************)
(* SpecFlight: SpecClient with the API request in two steps, the request   *)
(* going out and its answer coming back, so that the requests in flight    *)
(* show.                                                                   *)
(***************************************************************************)
\* httpClient.Do is entered: the GET goes out, unless ctx is done.
Send(p) ==
    /\ reqs[p].pc = "api"
    /\ IF reqs[p].ctx # "live"
       THEN /\ Finish(p, Wrap("http request", Canceled), None)
            /\ wire' = wire
       ELSE /\ reqs' = [reqs EXCEPT ![p].pc = "flight", ![p].sentAPI = TRUE,
                                    ![p].gets = @ + 1]
            /\ wire' = Sent(reqs[p].wiki)
    /\ UNCHANGED <<treeVars, cacheVars, cacheHist, opVars, lims>>

\* httpClient.Do returns, and what follows it: see Exchange.
Receive(p, api) ==
    /\ reqs[p].pc = "flight"
    /\ LET payload == Upstream("siteinfo", "", 0)
           x == Exchange(api, payload)
       IN  reqs' = [reqs EXCEPT ![p].pc = AfterAPI(x.err),
                                ![p].body = IF api = "err" THEN None
                                            ELSE Decoded(api, payload),
                                ![p].err = x.err,
                                ![p].resp = x.resp]
    /\ UNCHANGED <<treeVars, cacheVars, cacheHist, opVars, lims, wire>>

NextFlight ==
    \/ \E p \in Callers, w \in ClientWikis : Begin(p, w)
    \/ \E p \in Callers : Wait(p)
    \/ \E p \in Callers : WaitDone(p)
    \/ \E p \in Callers : WaitCancel(p)
    \/ \E p \in Callers : Lookup(p)
    \/ \E p \in Callers, answer \in ProbeAnswers : Probe(p, answer)
    \/ \E p \in Callers : Send(p)
    \/ \E p \in Callers, api \in APIAnswers : Receive(p, api)
    \/ \E p \in Callers : Cancel(p)
    \/ Advance

SpecFlight == Init /\ [][NextFlight]_vars

\* The calls whose API request is in flight to wiki w.
InFlight(w) == {p \in Begun : reqs[p].wiki = w /\ reqs[p].pc = "flight"}

\* C23: the requests to one wiki are serialized: at no instant are two HTTP
\* requests to the same wiki base URL in flight, whatever the interleaving
\* of the concurrent tool calls.
C23_Serialized ==
    \A w \in ClientWikis : Cardinality(InFlight(w)) <= 1

\* What the limiter does keep: the requests in flight to a wiki went out on
\* tokens 1/r apart, so that no two of them left at the same instant.
C23_SpacedStarts ==
    \A w \in DOMAIN wire :
        Cardinality(InFlight(w)) <= Len(wire[w].grants)

(***************************************************************************)
(* Further claims on SpecClient.                                           *)
(***************************************************************************)
\* The calls whose API request has failed: no answer, a bad status or body
\* (err), or an answer with an error object.
FailedGet == {p \in Begun : reqs[p].gets > 0 /\ reqs[p].err # None}

\* C24: the client performs no retries: a MakeRequest call sends one GET at
\* most to the resolved endpoint, and when the GET has failed it returns the
\* error without sending it again.
C24_NoRetry ==
    /\ \A p \in Begun :
          /\ reqs[p].gets <= 1
          /\ reqs[p].sentAPI <=> reqs[p].gets = 1
    /\ \A p \in FailedGet :
          /\ reqs[p].pc = "done"
          /\ reqs[p].resp = None

\* C24's case: the GET of a call has failed for want of an answer and the
\* GET of another for an API error; each was sent once, with its probe.
C24_Witness ==
    \E p, q \in FailedGet :
        /\ reqs[p].err = Error("request failed")
        /\ reqs[q].err = APIError("maxlag", "info:maxlag")
        /\ reqs[p].wiki # reqs[q].wiki
        /\ \A w \in ClientWikis : wire[w].sent = 2

\* The calls for wiki w that have run the discovery: they found no cached
\* path and have probed.
Discoveries(w) ==
    {p \in Discovering : reqs[p].wiki = w /\ reqs[p].probed # <<>>}

\* The step creates or rewrites the endpoint-map entry of wiki w.
WritesPath(w) ==
    \E p \in Callers :
        /\ reqs[p].pc = "probe" /\ reqs'[p].pc = "api"
        /\ reqs[p].wiki = w

\* C25: under any interleaving of concurrent first requests for a wiki the
\* endpoint discovery is performed once at most for it: one sequence of
\* probes at most is sent, and the endpoint-map entry is created once.
C25_DiscoveryOnce ==
    /\ [](\A w \in ClientWikis :
             w \in DOMAIN apiPaths => Cardinality(Discoveries(w)) <= 1)
    /\ [][\A w \in DOMAIN apiPaths : ~WritesPath(w)]_vars

\* What the code keeps of it: a call that looks the path up once it is
\* stored does not probe.
C25_NoDiscoveryOnceStored ==
    [][\A p \in Callers :
          (reqs[p].pc = "path" /\ reqs'[p].pc = "probe")
              => reqs[p].wiki \notin DOMAIN apiPaths]_vars

\* C29: once an API path has been cached for a wiki it is never changed or
\* removed, whatever the interleaving of the concurrent requests and the
\* outcomes of the probes.
C29_PathStable ==
    [][\A w \in DOMAIN apiPaths :
          w \in DOMAIN apiPaths' /\ apiPaths'[w] = apiPaths[w]]_vars

\* What the code keeps of it: a cached path is never removed.
C29_PathNeverRemoved ==
    [][\A w \in DOMAIN apiPaths : w \in DOMAIN apiPaths']_vars

(***************************************************************************)
(* SpecLimiter: getLimiter lock by lock, followed by the wait for the      *)
(* token.  The first look at the map is under the read lock; a call that   *)
(* found nothing takes the write lock, looks again and creates.            *)
(***************************************************************************)
\* getLimiter, under the read lock.
LimiterRead(p, wikiURL) ==
    /\ reqs[p].pc = "idle"
    /\ \A q \in Callers : q < p => reqs[q].pc # "idle"
    /\ reqs' = [reqs EXCEPT ![p] =
                   IF LimiterKey(wikiURL) \in DOMAIN lims
                   THEN BeginRequest(wikiURL)
                   ELSE [BeginRequest(wikiURL) EXCEPT !.pc = "create"]]
    /\ wire' = IF wikiURL \in DOMAIN wire THEN wire
               ELSE [w \in DOMAIN wire \cup {wikiURL} |->
                        IF w = wikiURL THEN NewWire(now) ELSE wire[w]]
    /\ UNCHANGED <<treeVars, cacheVars, cacheHist, opVars, lims>>

\* getLimiter, under the write lock.
LimiterCreate(p) ==
    /\ reqs[p].pc = "create"
    /\ reqs' = [reqs EXCEPT ![p].pc = "wait",
                            ![p].limiterFrom =
                                IF LimiterKey(reqs[p].wiki) \in DOMAIN lims
                                THEN "recheck" ELSE "made"]
    /\ lims' = getLimiter(lims, reqs[p].wiki)
    /\ limiters' = limiters \cup {reqs[p].wiki}
    /\ UNCHANGED <<treeVars, cacheVars, cacheHist, apiPaths, rev, calls, ret,
                   hist, wire>>

NextLimiter ==
    \/ \E p \in Callers, w \in ClientWikis : LimiterRead(p, w)
    \/ \E p \in Callers : LimiterCreate(p)
    \/ \E p \in Callers : Wait(p)
    \/ \E p \in Callers : WaitDone(p)
    \/ \E p \in Callers : WaitCancel(p)
    \/ \E p \in Callers : Cancel(p)
    \/ Advance

SpecLimiter == Init /\ [][NextLimiter]_vars

\* The limiter a call got from getLimiter is the one the map holds, and a
\* limiter was made by one call at most.
OneLimiter ==
    \A w \in ClientWikis :
        /\ Cardinality({p \in Begun : reqs[p].wiki = w
                                      /\ reqs[p].limiterFrom = "made"}) <= 1
        /\ \A p \in Begun :
              reqs[p].wiki = w /\ reqs[p].pc # "create"
                 => LimiterKey(w) \in DOMAIN lims

\* A stored limiter stays: no step removes it, and a step of getLimiter
\* leaves it as it is.
LimiterStays ==
    \A k \in DOMAIN lims :
        /\ k \in DOMAIN lims'
        /\ (\E p \in Callers : reqs[p].pc \in {"idle", "create"}
                               /\ reqs'[p] # reqs[p])
              => lims'[k] = lims[k]

\* C26: under any interleaving of concurrent getLimiter calls for a wiki
\* one limiter is created and stored for it, every call returns that
\* limiter, and a stored limiter is never replaced or removed.
C26_OneLimiter == []OneLimiter /\ [][LimiterStays]_vars

\* C26's case: two calls for a wiki have both found no limiter under the
\* read lock; one made it, the other found it under the write lock, and
\* their tokens are 1/r apart.
C26_Witness ==
    \E p, q \in Begun :
        /\ reqs[p].wiki = reqs[q].wiki
        /\ reqs[p].limiterFrom = "made"
        /\ reqs[q].limiterFrom = "recheck"
        /\ reqs[p].pc = "path" /\ reqs[q].pc = "path"
        /\ Len(wire[reqs[p].wiki].grants) = 2
        /\ wire[reqs[p].wiki].grants[2] =
              Add(wire[reqs[p].wiki].grants[1], Interval)

(***************************************************************************)
(* SpecKeys: page outlines and full pages asked for under titles of which  *)
(* one is the other followed by ":outline", against one cache.             *)
(***************************************************************************)
KeyTitles == {PageTitle, PageTitle \o ":outline"}

KeyOutcomes == {"ok", "err"}

NextKeys ==
    \/ \E title \in KeyTitles : CallGetPageOutline(WikiURL, title, KeyOutcomes)
    \/ \E title \in KeyTitles : CallGetPageFull(WikiURL, title, KeyOutcomes)
    \/ Edit
    \/ Tick(Seconds(1))

SpecKeys == Init /\ [][NextKeys]_vars

\* The type of value an operation keeps in the cache and asserts on a hit.
CachedType(op) ==
    IF op = "GetPageOutline" THEN "PageOutline" ELSE "PageFull"

\* The key under which the call of req looks its result up.
RequestKey(req) ==
    IF req.op = "GetPageOutline"
    THEN PageCacheKey(req.wikiURL, req.title \o ":outline")
    ELSE PageCacheKey(req.wikiURL, req.title)

KeyRequests ==
    [op : {"GetPageOutline", "GetPageFull"}, wikiURL : {WikiURL},
     title : KeyTitles]

\* The last call was answered without a request to the wiki.
ServedFromCache == ret # None /\ ret.sent = 0

\* Requests that differ in operation or arguments look up different keys.
KeysInjective ==
    \A q1, q2 \in KeyRequests : q1 # q2 => RequestKey(q1) # RequestKey(q2)

\* C27: requests that differ in operation or arguments never share a cache
\* entry: a call served from the cache returns a value of the type of its
\* operation, computed for its own title.
C27_DistinctKeys ==
    ServedFromCache =>
        /\ ret.err = None
        /\ ret.value.type = CachedType(ret.req.op)
        /\ ret.value.Title = ret.req.title

(***************************************************************************)
(* SpecRace: GetPageOutline of one page called concurrently, step by step  *)
(* (the look in the cache, the fetches, the Set), next to calls that run   *)
(* alone, the edits of the page, the clock and the sweep.  Nothing is held *)
(* between the look and the Set: the cache locks inside Get and Set only.  *)
(***************************************************************************)
RaceKey == PageCacheKey(WikiURL, PageTitle \o ":outline")

RaceOutcomes == {"ok", "err"}

RaceSteps == {Seconds(1), Seconds(DefaultCacheTTL + 1)}

\* The context of a call past its miss: it does not look in the cache again.
Missed == [Context EXCEPT !.items = <<>>]

\* h.cache.Get(cacheKey) of GetPageOutline.
RaceLookup(p) ==
    /\ reqs[p].pc = "idle"
    /\ \A q \in Callers : q < p => reqs[q].pc # "idle"
    /\ \E cached \in {CacheGet(items, now, RaceKey)} :
          reqs' = [reqs EXCEPT ![p] =
                      [pc |-> IF cached.ok THEN "done" ELSE "fetch",
                       hit |-> cached.ok,
                       err |-> None,
                       value |-> IF cached.ok THEN cached.value ELSE None,
                       sent |-> 0,
                       storedAt |-> None]]
    /\ UNCHANGED <<treeVars, cacheVars, cacheHist, opVars, lims, wire>>

\* The requests of GetPageOutline after the miss, up to the assembled outline.
RaceFetch(p) ==
    /\ reqs[p].pc = "fetch"
    /\ \E disc \in DiscChoices(WikiURL), net \in NetOutline(RaceOutcomes) :
          \E r \in {GetPageOutline(Missed, now, WikiURL, PageTitle,
                                   disc, net, rev)} :
              /\ \A i \in 1..4 : i > Len(r.c.fetched) => net[i] = "ok"
              /\ reqs' = [reqs EXCEPT ![p].pc =
                                          IF r.err = None THEN "store"
                                          ELSE "done",
                                      ![p].err = r.err,
                                      ![p].value = r.value,
                                      ![p].sent = r.c.sent]
              /\ limiters' = r.c.limiters
              /\ apiPaths' = r.c.apiPaths
    /\ UNCHANGED <<treeVars, cacheVars, cacheHist, rev, calls, ret, hist,
                   lims, wire>>

\* h.cache.Set(cacheKey, outline, h.cfg.GetCacheTTL("default")).
RaceStore(p) ==
    /\ reqs[p].pc = "store"
    /\ items' = CacheSet(items, now, RaceKey, reqs[p].value, GetCacheTTL)
    /\ reqs' = [reqs EXCEPT ![p].pc = "done", ![p].storedAt = now]
    /\ UNCHANGED <<now, ticks, treeVars, cacheHist, opVars, lims, wire>>

NextRace ==
    \/ \E p \in Callers : RaceLookup(p)
    \/ \E p \in Callers : RaceFetch(p)
    \/ \E p \in Callers : RaceStore(p)
    \/ CallGetPageOutline(WikiURL, PageTitle, RaceOutcomes)
    \/ Edit
    \/ cleanup
    \/ \E d \in RaceSteps : Tick(d)

SpecRace == Init /\ [][NextRace]_vars

\* The concurrent calls that wrote their outline to the cache.
Wrote == {p \in Callers : reqs[p].pc = "done" /\ reqs[p].storedAt # None}

\* The concurrent calls have all returned.
RaceOver == \A p \in Callers : reqs[p].pc = "done"

\* The entry some concurrent call wrote has not expired.
WithinTTL == \E p \in Wrote : ~After(now, Add(reqs[p].storedAt, GetCacheTTL))

\* Once the concurrent calls have returned, and within the TTL of what
\* they wrote, the cache holds the outline one of them wrote.
RaceConverged ==
    (RaceOver /\ WithinTTL) =>
        \E cached \in {CacheGet(items, now, RaceKey)} :
            /\ cached.ok
            /\ \E p \in Wrote : cached.value = reqs[p].value

\* A call made then is answered from the cache.
RaceThenHit ==
    (RaceOver /\ WithinTTL /\ calls' = calls + 1) =>
        /\ ret'.err = None
        /\ ret'.sent = 0
        /\ \E p \in Wrote : ret'.value = reqs[p].value

\* C28: concurrent calls with one cache key may all miss and all fetch;
\* when they have returned the cache holds under the key what one of them
\* wrote, and an identical call within the TTL is a hit that fetches
\* nothing.
C28_RaceConverges == []RaceConverged /\ [][RaceThenHit]_vars

\* Two calls both missed and both fetched, at the same moment, an edit of
\* the page between their fetches; a third call then hit what one of them
\* wrote.
C28_Witness ==
    /\ RaceOver
    /\ Wrote = Callers
    /\ \A p \in Callers : ~reqs[p].hit /\ reqs[p].sent > 0
    /\ \E p, q \in Callers : reqs[p].value # reqs[q].value
    /\ ticks = 0
    /\ ret # None
    /\ ret.sent = 0
    /\ \E p \in Wrote : ret.value = reqs[p].value

(***************************************************************************)
(* The parent GetPageSection reports, against the outline tree (SpecTree). *)
(***************************************************************************)
\* The position in the flattened outline where the lookup stops.
FoundAt ==
    CHOOSE k \in 1..Len(tFlat) :
        /\ tNodes[tFlat[k]].Index = tSect.arg
        /\ \A m \in 1..(k - 1) : tNodes[tFlat[m]].Index # tSect.arg

\* The sections whose subsection list contains section s.
Holders(s) ==
    {n \in 1..Len(tNodes) :
        \E k \in 1..Len(tNodes[n].Subsections) : tNodes[n].Subsections[k] = s}

TopLevel(s) == \E k \in 1..Len(tTop) : tTop[k] = s

SectionFound == tpc = "looked" /\ tSect.err = None

\* C30: the parent GetPageSection reports for a section is the section
\* whose subsection list contains it in the outline tree, and a section of
\* the outline's top-level list is reported with no parent.
C30_ParentInTree ==
    SectionFound =>
        \E s \in {tFlat[FoundAt]} :
            /\ \A n \in Holders(s) :
                  tSect.value.ParentSection =
                      [Index |-> tNodes[n].Index, Title |-> tNodes[n].Title]
            /\ TopLevel(s) => tSect.value.ParentSection = None

\* What the code keeps of it: the holder of a nested section is reported,
\* and a top-level section is reported with no parent or with the lead.
C30_ParentInTreeOrLead ==
    SectionFound =>
        \E s \in {tFlat[FoundAt]} :
            /\ \A n \in Holders(s) :
                  tSect.value.ParentSection =
                      [Index |-> tNodes[n].Index, Title |-> tNodes[n].Title]
            /\ TopLevel(s) =>
                  \/ tSect.value.ParentSection = None
                  \/ /\ tNodes[s].Level > 1
                     /\ tSect.value.ParentSection =
                            [Index |-> 0, Title |-> "Lead"]

(***************************************************************************)
(* The background sweep (SpecCache).                                       *)
(***************************************************************************)
\* The entry under key k has expired: the clock is past its expiration.
Expired(k) == After(now, items[k].expiration)

\* This step is a run of the sweep.
SweepStep == cleanup

\* C31: each run of the background sweep removes every entry whose
\* expiration instant has passed and no entry whose expiration has not
\* passed, and leaves the value and the expiration of every retained entry
\* unchanged.
C31_SweepFrame ==
    [][SweepStep =>
          /\ DOMAIN items' \subseteq DOMAIN items
          /\ \A k \in DOMAIN items :
                /\ Expired(k) => k \notin DOMAIN items'
                /\ ~Expired(k) => (k \in DOMAIN items' /\ items'[k] = items[k])]_vars

\* A sweep has run with an expired entry and one that expires at this very
\* instant in the map: the first is gone, the second is in the map as it
\* was set.
C31_Witness ==
    \E k1, k2 \in DOMAIN lastSet :
        /\ k1 \notin DOMAIN items
        /\ After(now, Add(lastSet[k1].at, lastSet[k1].ttl))
        /\ k2 \in DOMAIN items
        /\ items[k2].expiration = now
        /\ items[k2] = [value |-> lastSet[k2].value,
                        expiration |-> Add(lastSet[k2].at, lastSet[k2].ttl)]

(***************************************************************************)
(* SpecCacheFair: SpecCache with the sweep scheduled.  NewCache starts     *)
(* cleanupLoop, whose ticker fires for as long as the process runs, so a   *)
(* sweep that would remove something is not put off for ever.              *)
(***************************************************************************)
SpecCacheFair == SpecCache /\ WF_vars(cleanup)

\* The entry under key k is in the map and has expired.
ExpiredEntry(k) == k \in DOMAIN items /\ Expired(k)

\* The key is out of the map, or holds an entry that has not expired: the
\* expired one was removed or overwritten by a Set.
GoneOrOverwritten(k) == k \notin DOMAIN items \/ ~Expired(k)

\* C32: every cache entry that is neither overwritten nor deleted is
\* eventually removed from the map once its expiration has passed, and the
\* first sweep that runs after the expiration removes it.
C32_EventuallySwept ==
    /\ \A k \in CacheKeys : ExpiredEntry(k) ~> GoneOrOverwritten(k)
    /\ [][cleanup => \A k \in DOMAIN items :
                         Expired(k) => k \notin DOMAIN items']_vars

\* An entry that expired has been removed by the sweep, no Delete after its
\* Set, while the map still holds an entry set after it.
C32_Witness ==
    \E k \in DOMAIN lastSet :
        /\ k \notin DOMAIN items
        /\ After(now, Add(lastSet[k].at, lastSet[k].ttl))
        /\ \E k2 \in DOMAIN items : k2 # k /\ After(lastSet[k2].at, lastSet[k].at)

(***************************************************************************)
(* SpecLock: the cache's methods lock by lock.  Get takes c.mu.RLock() on  *)
(* entry and releases it on return; Set, Delete and cleanup take           *)
(* c.mu.Lock().  The mutex is sync.RWMutex: RLock waits while the write    *)
(* lock is held, Lock waits while the write lock or a read lock is held.   *)
(* (A Lock that waits also holds back the RLocks that come after it; the   *)
(* model lets them pass, which only adds behaviours.)                      *)
(***************************************************************************)
\* RLock can be taken.
RLockFree(m) == ~m.writer

\* A Lock that waits for the writer only.
LockFreeOfWriter(m) == ~m.writer

\* Lock can be taken.
LockFree(m) == ~m.writer /\ m.readers = 0

CacheOps == {"Get", "Set", "Delete"}

\* A goroutine calls a method of the cache.
LockCall(p, op, key) ==
    /\ reqs[p].pc = "idle"
    /\ \A q \in Callers : q < p => reqs[q].pc # "idle"
    /\ reqs' = [reqs EXCEPT ![p] = [pc |-> "lock", op |-> op, key |-> key,
                                    result |-> None]]
    /\ UNCHANGED <<treeVars, cacheVars, cacheHist, opVars, lims, wire>>

\* c.mu.RLock() of Get, c.mu.Lock() of Set and Delete.
Acquire(p) ==
    /\ reqs[p].pc = "lock"
    /\ IF reqs[p].op = "Get"
       THEN /\ RLockFree(mu)
            /\ mu' = [mu EXCEPT !.readers = @ + 1]
       ELSE /\ LockFree(mu)
            /\ mu' = [mu EXCEPT !.writer = TRUE]
    /\ reqs' = [reqs EXCEPT ![p].pc = "inside"]
    /\ UNCHANGED <<treeVars, cacheVars, got, lastSet, sweep, opVars, lims, wire>>

\* The body of the method and the deferred unlock.
Release(p) ==
    /\ reqs[p].pc = "inside"
    /\ \E value \in CacheValues, ttl \in CacheTTLs :
          /\ items' = IF reqs[p].op = "Set"
                      THEN CacheSet(items, now, reqs[p].key, value, ttl)
                      ELSE IF reqs[p].op = "Delete"
                      THEN CacheDelete(items, reqs[p].key)
                      ELSE items
          /\ reqs[p].op # "Set" => (value = "v1" /\ ttl = Seconds(1))
    /\ mu' = IF reqs[p].op = "Get" THEN [mu EXCEPT !.readers = @ - 1]
             ELSE [mu EXCEPT !.writer = FALSE]
    /\ reqs' = [reqs EXCEPT ![p] =
                   [pc |-> "idle", op |-> reqs[p].op, key |-> reqs[p].key,
                    result |-> IF reqs[p].op = "Get"
                               THEN CacheGet(items, now, reqs[p].key)
                               ELSE None]]
    /\ UNCHANGED <<now, ticks, treeVars, got, lastSet, sweep, opVars, lims, wire>>

\* The ticker fired: cleanup takes c.mu.Lock().
SweepAcquire ==
    /\ sweep = "ticker"
    /\ LockFree(mu)
    /\ mu' = [mu EXCEPT !.writer = TRUE]
    /\ sweep' = "inside"
    /\ UNCHANGED <<treeVars, cacheVars, got, lastSet, opVars, reqVars>>

\* cleanup's loop over the map and the deferred unlock.
SweepRelease ==
    /\ sweep = "inside"
    /\ items' = CacheCleanup(items, now)
    /\ mu' = [mu EXCEPT !.writer = FALSE]
    /\ sweep' = "ticker"
    /\ UNCHANGED <<now, ticks, treeVars, got, lastSet, opVars, reqVars>>

NextLock ==
    \/ \E p \in Callers, op \in CacheOps, key \in CacheKeys : LockCall(p, op, key)
    \/ \E p \in Callers : Acquire(p)
    \/ \E p \in Callers : Release(p)
    \/ SweepAcquire
    \/ SweepRelease
    \/ \E d \in CacheSteps : Tick(d)

SpecLock == Init /\ [][NextLock]_vars

\* The goroutines inside the critical section of a Get, and of a write.
ReadersInside ==
    {p \in Callers : reqs[p].pc = "inside" /\ reqs[p].op = "Get"}

WritersInside ==
    {p \in Callers : reqs[p].pc = "inside" /\ reqs[p].op # "Get"}
        \cup (IF sweep = "inside" THEN {0} ELSE {})

\* C33: at no instant is a write (Set, Delete or the sweep) inside its
\* critical section while another write or a Get is inside its own;
\* several Gets may be inside theirs at the same time.
C33_SingleWriter ==
    /\ Cardinality(WritersInside) <= 1
    /\ WritersInside # {} => ReadersInside = {}
    /\ mu.readers = Cardinality(ReadersInside)
    /\ mu.writer = (WritersInside # {})

\* Two Gets are inside their critical sections at the same time, while a
\* map written before holds an entry.
C33_Witness ==
    /\ Cardinality(ReadersInside) >= 2
    /\ items # <<>>

\* A write is inside its critical section while a caller waits at the lock.
C33_WitnessWriter ==
    /\ WritersInside # {}
    /\ \E p \in Callers : reqs[p].pc = "lock"

(***************************************************************************)
(* Failed calls and the cache (SpecSection, Spec, SpecTools).              *)
(***************************************************************************)
\* The cache key of a request, as its operation makes it.
OwnKey(req) ==
    IF req.op = "GetWikiInfo" THEN InfoCacheKey(req.wikiURL)
    ELSE IF req.op = "SearchWiki"
    THEN SearchCacheKey(req.wikiURL, req.query \o ":" \o Itoa(req.limit))
    ELSE IF req.op = "GetPageOutline"
    THEN PageCacheKey(req.wikiURL, req.title \o ":outline")
    ELSE IF req.op = "GetPageSection"
    THEN SectionCacheKey(req.wikiURL, req.title, Itoa(req.sectionIndex))
    ELSE IF req.op = "GetPageFull" THEN PageCacheKey(req.wikiURL, req.title)
    ELSE IF req.op = "GetCategory"
    THEN CategoryCacheKey(req.wikiURL, req.category \o ":" \o Itoa(req.limit))
    ELSE IF req.op = "GetBacklinks"
    THEN BacklinksCacheKey(req.wikiURL, req.title \o ":" \o Itoa(req.limit))
    ELSE ""

\* This step is a call that returns an error.
FailedCall == calls' = calls + 1 /\ ret'.err # None

\* C34: an operation that returns an error stores nothing under its own
\* cache key: after the failed call, Get on that key gives what it gave
\* before the call.
C34_FailedStoresNothing ==
    [][FailedCall =>
          /\ OwnKey(ret'.req) \notin ret'.stored
          /\ CacheGet(items', now', OwnKey(ret'.req))
                 = CacheGet(items, now, OwnKey(ret'.req))
          /\ OwnKey(ret'.req) \in DOMAIN items =>
                 /\ OwnKey(ret'.req) \in DOMAIN items'
                 /\ items'[OwnKey(ret'.req)] = items[OwnKey(ret'.req)]]_vars

\* GetPageSection failed at the request for the section's text, after it
\* had fetched the outline anew and stored it, while the map holds the
\* expired entry of an earlier call under the section's key.
C34_Witness ==
    /\ ret # None
    /\ ret.req.op = "GetPageSection"
    /\ ret.err # None
    /\ ret.err # Panic
    /\ ret.sent > 0
    /\ ret.stored # {}
    /\ OwnKey(ret.req) \in DOMAIN items
    /\ ~CacheGet(items, now, OwnKey(ret.req)).ok

(***************************************************************************)
(* Get and the sweep (SpecCache).                                          *)
(***************************************************************************)
\* This step is a Get.
GetStep == got' # got

\* What Get returns for each key.
Observable(its, t) == [k \in CacheKeys |-> CacheGet(its, t, k)]

\* C35: Get never modifies the cache, and the background sweep cannot be
\* observed through Get: for every key and instant, Get returns the same
\* whether or not a sweep ran just before it.
C35_SweepUnobservable ==
    /\ [][GetStep => items' = items]_vars
    /\ [][SweepStep => Observable(items', now') = Observable(items, now)]_vars
    /\ [][GetStep =>
              got'.result = CacheGet(CacheCleanup(items, now), now, got'.key)]_vars

\* A Get of a key whose entry had expired and had been swept, while the
\* other key's entry, not expired, is in the map.
C35_Witness ==
    /\ got # None
    /\ got.at = now
    /\ ~got.result.ok
    /\ got.key \in DOMAIN lastSet
    /\ got.key \notin DOMAIN items
    /\ \E k \in DOMAIN items : CacheGet(items, now, k).ok

(***************************************************************************)
(* The strings package on strings held as sequences of characters.         *)
(* IndexOf is strings.Index counted from 1, 0 when sub does not occur.     *)
(***************************************************************************)
HasPrefix(s, prefix) ==
    Len(s) >= Len(prefix) /\ SubSeq(s, 1, Len(prefix)) = prefix

TrimPrefix(s, prefix) ==
    IF HasPrefix(s, prefix) THEN SubSeq(s, Len(prefix) + 1, Len(s)) ELSE s

Occurs(s, sub, i) ==
    i + Len(sub) - 1 <= Len(s) /\ SubSeq(s, i, i + Len(sub) - 1) = sub

IndexOf(s, sub) ==
    IF \E i \in 1..(Len(s) - Len(sub) + 1) : Occurs(s, sub, i)
    THEN CHOOSE i \in 1..(Len(s) - Len(sub) + 1) :
            /\ Occurs(s, sub, i)
            /\ \A j \in 1..(i - 1) : ~Occurs(s, sub, j)
    ELSE 0

Contains(s, sub) == IndexOf(s, sub) # 0

\* s[:idx] where idx is the index of sub, s where sub does not occur.
CutAt(s, sub) ==
    IF IndexOf(s, sub) # 0 THEN SubSeq(s, 1, IndexOf(s, sub) - 1) ELSE s

\* strings.Split(s, sep)[1] for an s that contains sep: what stands between
\* the first occurrence of sep and the next.
SplitSecond(s, sep) ==
    CutAt(SubSeq(s, IndexOf(s, sep) + Len(sep), Len(s)), sep)

ReplaceAll(s, old, new) == [i \in 1..Len(s) |-> IF s[i] = old THEN new ELSE s[i]]

(***************************************************************************)
(* wiki.ExtractLinks.  The HTML is held as the sequence of its anchor      *)
(* elements in document order, as goquery's Find("a").Each visits them;    *)
(* an anchor is its href attribute, or has none.                           *)
(***************************************************************************)
WikiPrefix == <<"/", "w", "i", "k", "i", "/">>

TitleParam == <<"t", "i", "t", "l", "e", "=">>

\* decodeTitle
decodeTitle(title) == ReplaceAll(title, "_", " ")

\* extractTitleFromHref
extractTitleFromHref(href) ==
    IF HasPrefix(href, WikiPrefix)
    THEN decodeTitle(CutAt(TrimPrefix(href, WikiPrefix), <<"#">>))
    ELSE IF Contains(href, TitleParam)
    THEN decodeTitle(CutAt(CutAt(SplitSecond(href, TitleParam), <<"&">>),
                           <<"#">>))
    ELSE <<>>

Anchor(href) == [exists |-> TRUE, href |-> href]

AnchorNoHref == [exists |-> FALSE]

\* The body of the Each callback, over the anchors left.
RECURSIVE LinksLoop(_, _, _)
LinksLoop(anchors, links, seen) ==
    IF anchors = <<>> THEN links
    ELSE IF ~Head(anchors).exists THEN LinksLoop(Tail(anchors), links, seen)
    ELSE With(extractTitleFromHref(Head(anchors).href),
         LAMBDA title :
         IF title = <<>> THEN LinksLoop(Tail(anchors), links, seen)
         ELSE IF title \in seen THEN LinksLoop(Tail(anchors), links, seen)
         ELSE LinksLoop(Tail(anchors), Append(links, title),
                        seen \cup {title}))

ExtractLinks(html) == LinksLoop(html, <<>>, {})

\* "/wiki/Go_(programming_language)"
HrefGo ==
    <<"/", "w", "i", "k", "i", "/", "G", "o", "_", "(", "p", "r", "o", "g",
      "r", "a", "m", "m", "i", "n", "g", "_", "l", "a", "n", "g", "u", "a",
      "g", "e", ")">>

\* "/wiki/Go_(programming_language)#section"
HrefGoSection ==
    <<"/", "w", "i", "k", "i", "/", "G", "o", "_", "(", "p", "r", "o", "g",
      "r", "a", "m", "m", "i", "n", "g", "_", "l", "a", "n", "g", "u", "a",
      "g", "e", ")", "#", "s", "e", "c", "t", "i", "o", "n">>

\* "/wiki/Go_%28programming_language%29"
HrefGoEncoded ==
    <<"/", "w", "i", "k", "i", "/", "G", "o", "_", "%", "2", "8", "p", "r",
      "o", "g", "r", "a", "m", "m", "i", "n", "g", "_", "l", "a", "n", "g",
      "u", "a", "g", "e", "%", "2", "9">>

\* "/w/index.php?title=Main_Page&action=edit"
HrefIndexPhp ==
    <<"/", "w", "/", "i", "n", "d", "e", "x", ".", "p", "h", "p", "?", "t",
      "i", "t", "l", "e", "=", "M", "a", "i", "n", "_", "P", "a", "g", "e",
      "&", "a", "c", "t", "i", "o", "n", "=", "e", "d", "i", "t">>

\* "https://example.org/"
HrefExternal ==
    <<"h", "t", "t", "p", "s", ":", "/", "/", "e", "x", "a", "m", "p", "l",
      "e", ".", "o", "r", "g", "/">>

\* "#cite_note-1"
HrefFragment ==
    <<"#", "c", "i", "t", "e", "_", "n", "o", "t", "e", "-", "1">>

\* "/w/index.php?subtitle=Go"
HrefSubtitle ==
    <<"/", "w", "/", "i", "n", "d", "e", "x", ".", "p", "h", "p", "?", "s",
      "u", "b", "t", "i", "t", "l", "e", "=", "G", "o">>

\* "Go (programming language)"
TitleGo ==
    <<"G", "o", " ", "(", "p", "r", "o", "g", "r", "a", "m", "m", "i", "n",
      "g", " ", "l", "a", "n", "g", "u", "a", "g", "e", ")">>

\* "Main Page"
TitleMainPage ==
    <<"M", "a", "i", "n", " ", "P", "a", "g", "e">>

PrefixCategory ==
    <<"C", "a", "t", "e", "g", "o", "r", "y", ":">>

PrefixFile ==
    <<"F", "i", "l", "e", ":">>

PrefixWikipedia ==
    <<"W", "i", "k", "i", "p", "e", "d", "i", "a", ":">>

PrefixTemplate ==
    <<"T", "e", "m", "p", "l", "a", "t", "e", ":">>

PrefixHelp ==
    <<"H", "e", "l", "p", ":">>

PrefixTalk ==
    <<"T", "a", "l", "k", ":">>

(***************************************************************************)
(* extractSeeAlsoLinks on the titles of resp.Parse.Links.                  *)
(***************************************************************************)
SeeAlsoLimit == 10

\* The titles the loop skips as meta pages.
IsMetaTitle(title) ==
    \/ HasPrefix(title, PrefixCategory)
    \/ HasPrefix(title, PrefixFile)
    \/ HasPrefix(title, PrefixWikipedia)
    \/ HasPrefix(title, PrefixTemplate)
    \/ HasPrefix(title, PrefixHelp)

\* A limit test that lets one more title in.
SeeAlsoFullLate(seeAlso) == Len(seeAlso) > SeeAlsoLimit

\* "if len(seeAlso) >= 10 { break }"
SeeAlsoFull(seeAlso) == Len(seeAlso) >= SeeAlsoLimit

RECURSIVE SeeAlsoLoop(_, _, _)
SeeAlsoLoop(links, seeAlso, seen) ==
    IF links = <<>> THEN seeAlso
    ELSE IF IsMetaTitle(Head(links)) THEN SeeAlsoLoop(Tail(links), seeAlso, seen)
    ELSE IF Head(links) \in seen THEN SeeAlsoLoop(Tail(links), seeAlso, seen)
    ELSE IF SeeAlsoFull(Append(seeAlso, Head(links)))
    THEN Append(seeAlso, Head(links))
    ELSE SeeAlsoLoop(Tail(links), Append(seeAlso, Head(links)),
                     seen \cup {Head(links)})

extractSeeAlsoLinks(links) == SeeAlsoLoop(links, <<>>, {})

(***************************************************************************)
(* SpecExtract: the extraction functions applied to arguments drawn from   *)
(* bounded sets.                                                           *)
(***************************************************************************)
Hrefs ==
    {HrefGo, HrefGoSection, HrefGoEncoded, HrefIndexPhp, HrefExternal,
     HrefFragment, HrefSubtitle}

Anchors == {Anchor(href) : href \in Hrefs} \cup {AnchorNoHref}

\* The sequences over S of at most n elements.
SeqUpTo(S, n) == UNION {[1..k -> S] : k \in 0..n}

\* The link lists drawn: n distinct page titles, one more title put in at
\* some position, the whole list once or twice over.
LinkTitle(i) == <<"T">> \o Canon(i)

ExtraTitles ==
    {p \o <<"X">> : p \in {PrefixCategory, PrefixFile, PrefixWikipedia,
                            PrefixTemplate, PrefixHelp, PrefixTalk}}
        \cup {LinkTitle(1)}

InsertAt(s, i, e) == SubSeq(s, 1, i) \o <<e>> \o SubSeq(s, i + 1, Len(s))

LinkLists ==
    UNION {LET base == [i \in 1..n |-> LinkTitle(i)]
               once == {base} \cup {InsertAt(base, i, e) :
                                        i \in 0..n, e \in ExtraTitles}
           IN  once \cup {l \o l : l \in once} : n \in 0..MaxLinks}

\* The wikitexts drawn: lines that open or close a template, "|key = value"
\* lines and other text.
WikitextLines ==
    {[line |-> "{{Infobox"], [line |-> "{{Taxobox"], [line |-> "}}"],
     [line |-> "text"], [line |-> "pair", key |-> "k", value |-> 1]}

InitExtract ==
    /\ \/ xin \in [fn : {"ExtractLinks"}, html : SeqUpTo(Anchors, MaxAnchors)]
       \/ xin \in [fn : {"extractSeeAlsoLinks"}, links : LinkLists]
       \/ xin \in [fn : {"ExtractInfobox"},
                   wikitext : SeqUpTo(WikitextLines, MaxLines)]
    /\ xout = None
    /\ TreeIdle
    /\ CacheStart
    /\ CacheHistOff
    /\ ClientStart

ApplyExtractLinks ==
    /\ xin.fn = "ExtractLinks"
    /\ xout = None
    /\ xout' = [links |-> ExtractLinks(xin.html)]
    /\ UNCHANGED <<xin, toc, lead, tpc, tOutline, tSect, cacheVars, cacheHist,
                   opVars, reqVars>>

ApplySeeAlso ==
    /\ xin.fn = "extractSeeAlsoLinks"
    /\ xout = None
    /\ xout' = [seeAlso |-> extractSeeAlsoLinks(xin.links)]
    /\ UNCHANGED <<xin, toc, lead, tpc, tOutline, tSect, cacheVars, cacheHist,
                   opVars, reqVars>>

\* GetPageOutline from the wikitext it fetched to the result of the tool.
ApplyInfobox ==
    /\ xin.fn = "ExtractInfobox"
    /\ xout = None
    /\ \E infobox \in {ExtractInfobox(xin.wikitext)} :
          \E outline \in {AssembleOutline(PageTitle, PageToc(0), <<"w">>,
                                          infobox)} :
              xout' = [infobox |-> infobox, outline |-> outline,
                       result |-> ToolResult(None, outline)]
    /\ UNCHANGED <<xin, toc, lead, tpc, tOutline, tSect, cacheVars, cacheHist,
                   opVars, reqVars>>

NextExtract ==
    \/ ApplyExtractLinks
    \/ ApplySeeAlso
    \/ ApplyInfobox

SpecExtract == InitExtract /\ [][NextExtract]_vars

(***************************************************************************)
(* Properties of ExtractLinks (SpecExtract).                               *)
(***************************************************************************)
LinksDone == xin # None /\ xin.fn = "ExtractLinks" /\ xout # None

\* The href is a /wiki/<Title> path.
IsWikiPath(href) == HasPrefix(href, WikiPrefix)

\* The positions of the href where a query-string parameter named title
\* has its "title=": after the "?" or an "&" of the query string, before
\* any "#".
TitleParamAt(href) ==
    {i \in 2..Len(href) :
        /\ Occurs(href, TitleParam, i)
        /\ href[i - 1] \in {"?", "&"}
        /\ \E q \in 1..(i - 1) : href[q] = "?"
        /\ \A q \in 1..(i - 1) : href[q] # "#"}

CarriesTitleParam(href) == TitleParamAt(href) # {}

\* The anchor's href has one of the two shapes.
Recognized(a) ==
    a.exists /\ (IsWikiPath(a.href) \/ CarriesTitleParam(a.href))

\* The anchor's href has the prefix or the text the code looks for.
RecognizedByText(a) ==
    a.exists /\ (HasPrefix(a.href, WikiPrefix) \/ Contains(a.href, TitleParam))

\* The title the anchor at position p of the HTML resolves to.
TitleAt(p) ==
    IF xin.html[p].exists THEN extractTitleFromHref(xin.html[p].href) ELSE <<>>

\* The first anchor that resolves to the title.
FirstAnchor(title) ==
    CHOOSE p \in 1..Len(xin.html) :
        /\ TitleAt(p) = title
        /\ \A q \in 1..(p - 1) : TitleAt(q) # title

\* Each resolved title once, in the order of the first anchors.
OnceInOrder ==
    /\ \A i, j \in 1..Len(xout.links) : i # j => xout.links[i] # xout.links[j]
    /\ \A i \in 1..Len(xout.links) :
          \E p \in 1..Len(xin.html) : TitleAt(p) = xout.links[i]
    /\ \A p \in 1..Len(xin.html) :
          TitleAt(p) # <<>> => \E i \in 1..Len(xout.links) : xout.links[i] = TitleAt(p)
    /\ \A i, j \in 1..Len(xout.links) :
          i < j => FirstAnchor(xout.links[i]) < FirstAnchor(xout.links[j])

\* The example: two anchors to one page, one of them with a fragment.
GoTwice == <<Anchor(HrefGo), Anchor(HrefGoSection)>>

\* C36: ExtractLinks returns each resolved page title at most once, in the
\* order of first appearance of its anchor; an anchor whose href is neither
\* a /wiki/<Title> path nor carries a title= parameter contributes nothing,
\* and a #fragment is ignored: two anchors to
\* /wiki/Go_(programming_language), one with a #section suffix, yield the
\* single title "Go (programming language)".
C36_LinksOnceInOrder ==
    LinksDone =>
        /\ OnceInOrder
        /\ xout.links = ExtractLinks(SelectSeq(xin.html, Recognized))
        /\ xin.html = GoTwice => xout.links = <<TitleGo>>

\* What the code keeps of it: the anchors that contribute nothing are those
\* whose href has neither the /wiki/ prefix nor the text "title=" anywhere.
C36_LinksOnceInOrderByText ==
    LinksDone =>
        /\ OnceInOrder
        /\ xout.links = ExtractLinks(SelectSeq(xin.html, RecognizedByText))
        /\ xin.html = GoTwice => xout.links = <<TitleGo>>

\* The percent-encodings of the hrefs drawn.
PercentCodes ==
    (<<"2", "8">> :> "(") @@ (<<"2", "9">> :> ")") @@ (<<"2", "0">> :> " ")

RECURSIVE Unescape(_)
Unescape(s) ==
    IF s = <<>> THEN <<>>
    ELSE IF s[1] = "%" /\ Len(s) >= 3 /\ <<s[2], s[3]>> \in DOMAIN PercentCodes
    THEN <<PercentCodes[<<s[2], s[3]>>]>> \o Unescape(SubSeq(s, 4, Len(s)))
    ELSE <<s[1]>> \o Unescape(Tail(s))

\* The title part of a recognized href, as the href carries it.
TitlePart(href) ==
    IF IsWikiPath(href) THEN CutAt(TrimPrefix(href, WikiPrefix), <<"#">>)
    ELSE LET i == CHOOSE k \in TitleParamAt(href) :
                      \A m \in TitleParamAt(href) : k <= m
         IN  CutAt(CutAt(SubSeq(href, i + Len(TitleParam), Len(href)), <<"&">>),
                   <<"#">>)

\* The canonical page title: percent-encoding decoded, underscores to spaces.
Canonical(part) == ReplaceAll(Unescape(part), "_", " ")

\* C37: ExtractLinks resolves every recognized href to its canonical page
\* title, decoding percent-encoding and converting underscores to spaces:
\* an href whose title part is percent-encoded yields the decoded title.
C37_CanonicalTitle ==
    LinksDone =>
        /\ \A p \in 1..Len(xin.html) :
              Recognized(xin.html[p]) =>
                  TitleAt(p) = Canonical(TitlePart(xin.html[p].href))
        /\ xin.html = <<Anchor(HrefGoEncoded)>> => xout.links = <<TitleGo>>

\* What the code keeps of it: underscores become spaces, and the
\* percent-encoding stays as it is in the href.
C37_UnderscoresOnly ==
    LinksDone =>
        \A p \in 1..Len(xin.html) :
            Recognized(xin.html[p]) =>
                TitleAt(p) = ReplaceAll(TitlePart(xin.html[p].href), "_", " ")

(***************************************************************************)
(* Properties of extractSeeAlsoLinks and ExtractInfobox (SpecExtract).     *)
(***************************************************************************)
SeeAlsoDone == xin # None /\ xin.fn = "extractSeeAlsoLinks" /\ xout # None

MetaPrefixes ==
    {PrefixCategory, PrefixFile, PrefixWikipedia, PrefixTemplate, PrefixHelp}

\* The positions of the link list that hold a title of no meta-namespace
\* for the first time.
Kept(links) ==
    {i \in 1..Len(links) :
        /\ \A prefix \in MetaPrefixes : ~HasPrefix(links[i], prefix)
        /\ \A j \in 1..(i - 1) : links[j] # links[i]}

\* The k-th of a set of positions, in increasing order.
Nth(P, k) == CHOOSE i \in P : Cardinality({j \in P : j <= i}) = k

Min2(a, b) == IF a <= b THEN a ELSE b

\* C38: the see_also list is the page's outgoing link titles in their
\* original order, the titles of the meta-namespaces (Category:, File:,
\* Wikipedia:, Template:, Help:) and the duplicates removed, truncated to
\* its first 10 entries; it never has more than 10 entries and never a
\* repeated title.
C38_SeeAlso ==
    SeeAlsoDone =>
        /\ Len(xout.seeAlso) = Min2(10, Cardinality(Kept(xin.links)))
        /\ \A k \in 1..Len(xout.seeAlso) :
              xout.seeAlso[k] = xin.links[Nth(Kept(xin.links), k)]
        /\ Len(xout.seeAlso) <= 10
        /\ \A i, j \in 1..Len(xout.seeAlso) :
              i # j => xout.seeAlso[i] # xout.seeAlso[j]

\* A list of more than ten distinct page titles with a meta title and a
\* repeated title among the first ten, cut to ten.
C38_Witness ==
    /\ SeeAlsoDone
    /\ Len(xout.seeAlso) = 10
    /\ Cardinality(Kept(xin.links)) > 10
    /\ \E i \in 1..10 : \E prefix \in MetaPrefixes : HasPrefix(xin.links[i], prefix)
    /\ \E i, j \in 1..Len(xin.links) : i < j /\ xin.links[i] = xin.links[j]

InfoboxDone == xin # None /\ xin.fn = "ExtractInfobox" /\ xout # None

\* No line of the wikitext opens a template whose name starts with Infobox.
NoInfoboxTemplate(wikitext) ==
    \A i \in 1..Len(wikitext) : wikitext[i].line # "{{Infobox"

\* C39: ExtractInfobox returns an absent (nil) map, never an error, for
\* every wikitext with no template whose name starts with "Infobox", and
\* GetPageOutline then returns a successful outline without the infobox.
C39_NoInfobox ==
    (InfoboxDone /\ NoInfoboxTemplate(xin.wikitext)) =>
        /\ xout.infobox = None
        /\ xout.outline.Infobox = None
        /\ xout.outline.Exists
        /\ ~xout.result.IsError
        /\ xout.result.Content = xout.outline

\* A wikitext with another template, pairs and its closing line.
C39_Witness ==
    /\ InfoboxDone
    /\ NoInfoboxTemplate(xin.wikitext)
    /\ Len(xin.wikitext) >= 3
    /\ xin.wikitext[1].line = "{{Taxobox"
    /\ xin.wikitext[2].line = "pair"
    /\ xin.wikitext[Len(xin.wikitext)].line = "}}"
    /\ xout.infobox = None

\* A wikitext with an Infobox template gives its pairs.
C39_WitnessInfobox ==
    /\ InfoboxDone
    /\ ~NoInfoboxTemplate(xin.wikitext)
    /\ xout.infobox # None
    /\ xout.outline.Infobox = xout.infobox

====
